---------------------------- MODULE Spec2Model ----------------------------
(***************************************************************************)
(* Estimate pipeline of the SKSK ProTech / P613 estimator backend:         *)
(* the flat-rate matcher (getFlatRate over FLAT_RATES), and the            *)
(* POST /api/generate-estimate handlers (normalization, pricing,           *)
(* customer lookup-or-insert, job insert, response), fetchWithRetry, the   *)
(* extraction of the JSON object from a reply, and the routes that share   *)
(* the store between requests: POST /api/customers, /api/validate-access,  *)
(* /api/stripe-webhook and /api/create-invoice.                            *)
(*                                                                         *)
(* Conventions.                                                            *)
(*  - A JavaScript string is a sequence of one-character strings.          *)
(*  - A JavaScript number is an integer count of thousandths (2.5 is       *)
(*    2500), or NaN.  Products and quotients are computed exactly and      *)
(*    rounded where the code rounds (toFixed(2), Math.round); binary       *)
(*    floating-point representation error is not modelled.                 *)
(*  - A JavaScript value is a record [k, n, s]: k is the type tag, n the   *)
(*    number (thousandths) when k = "num", s the characters when           *)
(*    k = "str".                                                           *)
(***************************************************************************)
EXTENDS Integers, Sequences, FiniteSets, TLC

(***************************************************************************)
(* Bounds of the model.                                                    *)
(***************************************************************************)
\* largest number of blanks put before and after a description
MaxPad == 1
\* largest number of entries in the parts list of a raw estimate
MaxParts == 2

\* the largest value of the parameter retries of fetchWithRetry
MaxRetries == 3

\* the number of requests a route handles at the same time
MaxRequests == 2

\* the largest max_uses of an access code
MaxUses == 2

(***************************************************************************)
(* Strings.                                                                *)
(***************************************************************************)
UPPER ==
  <<"A","B","C","D","E","F","G","H","I","J","K","L","M",
    "N","O","P","Q","R","S","T","U","V","W","X","Y","Z">>

LOWER ==
  <<"a","b","c","d","e","f","g","h","i","j","k","l","m",
    "n","o","p","q","r","s","t","u","v","w","x","y","z">>

WhiteSpace == {" ", "\t", "\n"}

\* String.prototype.toLowerCase, one character
toLowerCaseChar(c) ==
  IF \E i \in 1..Len(UPPER) : UPPER[i] = c
  THEN LOWER[CHOOSE i \in 1..Len(UPPER) : UPPER[i] = c]
  ELSE c

\* String.prototype.toLowerCase
toLowerCase(str) == [i \in 1..Len(str) |-> toLowerCaseChar(str[i])]

\* String.prototype.toUpperCase (used to build inputs only)
toUpperCaseChar(c) ==
  IF \E i \in 1..Len(LOWER) : LOWER[i] = c
  THEN UPPER[CHOOSE i \in 1..Len(LOWER) : LOWER[i] = c]
  ELSE c

toUpperCase(str) == [i \in 1..Len(str) |-> toUpperCaseChar(str[i])]

\* String.prototype.trim: drops leading and trailing white space
trim(str) ==
  LET keep == {i \in 1..Len(str) : str[i] \notin WhiteSpace}
  IN  IF keep = {} THEN <<>>
      ELSE LET lo == CHOOSE i \in keep : \A j \in keep : i <= j
               hi == CHOOSE i \in keep : \A j \in keep : j <= i
           IN  SubSeq(str, lo, hi)

\* String.prototype.includes: a left-to-right search for the key
includes(str, key) ==
  \E i \in 1..(Len(str) - Len(key) + 1) :
     \A j \in 1..Len(key) : str[i + j - 1] = key[j]

(***************************************************************************)
(* The flat-rate tables.  Object.entries enumerates string keys in         *)
(* declaration order; no key is declared twice in either table.            *)
(***************************************************************************)
Fixed(job, h) == [job |-> job, kind |-> "fixed", hours |-> h, min |-> 0, max |-> 0]

Range(job, lo, hi) == [job |-> job, kind |-> "range", hours |-> 0, min |-> lo, max |-> hi]

\* the value null returned by getFlatRate
NoMatch == [job |-> <<>>, kind |-> "null", hours |-> 0, min |-> 0, max |-> 0]

FLAT_RATES ==
  <<
    Fixed(<<"o","i","l"," ","c","h","a","n","g","e">>, 500),
    Fixed(<<"o","i","l"," ","c","h","a","n","g","e"," ","b","a","s","i","c">>, 500),
    Fixed(<<"o","i","l"," ","c","h","a","n","g","e"," ","s","y","n","t","h","e","t","i","c">>, 500),
    Fixed(<<"o","i","l"," ","a","n","d"," ","f","i","l","t","e","r">>, 500),
    Fixed(<<"o","i","l"," ","c","h","a","n","g","e"," ","+"," ","r","o","t","a","t","i","o","n">>, 1000),
    Fixed(<<"t","i","r","e"," ","r","o","t","a","t","i","o","n">>, 500),
    Fixed(<<"b","a","t","t","e","r","y"," ","r","e","p","l","a","c","e","m","e","n","t">>, 300),
    Fixed(<<"b","a","t","t","e","r","y"," ","i","n","s","t","a","l","l">>, 300),
    Fixed(<<"w","i","p","e","r"," ","b","l","a","d","e","s">>, 200),
    Fixed(<<"a","i","r"," ","f","i","l","t","e","r">>, 300),
    Fixed(<<"c","a","b","i","n"," ","f","i","l","t","e","r">>, 400),
    Fixed(<<"b","r","a","k","e"," ","f","l","u","i","d"," ","f","l","u","s","h">>, 750),
    Fixed(<<"c","o","o","l","a","n","t"," ","f","l","u","s","h">>, 1000),
    Fixed(<<"r","a","d","i","a","t","o","r"," ","f","l","u","s","h">>, 1000),
    Fixed(<<"t","r","a","n","s","m","i","s","s","i","o","n"," ","f","l","u","i","d">>, 1000),
    Fixed(<<"p","o","w","e","r"," ","s","t","e","e","r","i","n","g"," ","f","l","u","s","h">>, 500),
    Fixed(<<"d","i","f","f","e","r","e","n","t","i","a","l"," ","f","l","u","i","d">>, 750),
    Fixed(<<"t","h","e","r","m","o","s","t","a","t">>, 1000),
    Fixed(<<"w","a","t","e","r"," ","p","u","m","p">>, 2500),
    Fixed(<<"w","a","t","e","r"," ","p","u","m","p"," ","r","e","p","l","a","c","e","m","e","n","t">>, 2500),
    Range(<<"r","a","d","i","a","t","o","r">>, 2000, 3500),
    Fixed(<<"r","a","d","i","a","t","o","r"," ","h","o","s","e">>, 500),
    Range(<<"b","r","a","k","e"," ","p","a","d","s"," ","f","r","o","n","t">>, 1500, 2000),
    Range(<<"b","r","a","k","e"," ","p","a","d","s"," ","r","e","a","r">>, 1500, 2000),
    Range(<<"b","r","a","k","e"," ","p","a","d","s"," ","a","n","d"," ","r","o","t","o","r","s"," ","f","r","o","n","t">>, 2000, 2500),
    Range(<<"b","r","a","k","e"," ","p","a","d","s"," ","a","n","d"," ","r","o","t","o","r","s"," ","r","e","a","r">>, 2000, 2500),
    Range(<<"b","r","a","k","e"," ","c","a","l","i","p","e","r">>, 1000, 1500),
    Range(<<"a","l","t","e","r","n","a","t","o","r">>, 1500, 3500),
    Range(<<"s","t","a","r","t","e","r">>, 1500, 3500),
    Range(<<"s","p","a","r","k"," ","p","l","u","g","s">>, 750, 2000),
    Range(<<"i","g","n","i","t","i","o","n"," ","c","o","i","l">>, 500, 1000),
    Range(<<"s","e","r","p","e","n","t","i","n","e"," ","b","e","l","t">>, 500, 1000),
    Range(<<"t","i","m","i","n","g"," ","b","e","l","t">>, 4000, 8000),
    Range(<<"t","i","e"," ","r","o","d">>, 1000, 1500),
    Range(<<"b","a","l","l"," ","j","o","i","n","t">>, 1500, 2500),
    Range(<<"c","o","n","t","r","o","l"," ","a","r","m">>, 1500, 2500),
    Fixed(<<"s","w","a","y"," ","b","a","r"," ","l","i","n","k">>, 750),
    Range(<<"s","h","o","c","k"," ","a","b","s","o","r","b","e","r">>, 1000, 1500),
    Range(<<"s","t","r","u","t">>, 1500, 2500),
    Range(<<"f","u","e","l"," ","p","u","m","p">>, 2000, 3500),
    Fixed(<<"f","u","e","l"," ","f","i","l","t","e","r">>, 500),
    Range(<<"f","u","e","l"," ","i","n","j","e","c","t","o","r">>, 1000, 2000),
    Range(<<"m","u","f","f","l","e","r">>, 1000, 1500),
    Range(<<"c","a","t","a","l","y","t","i","c"," ","c","o","n","v","e","r","t","e","r">>, 1500, 2500),
    Fixed(<<"o","x","y","g","e","n"," ","s","e","n","s","o","r">>, 500),
    Fixed(<<"o","2"," ","s","e","n","s","o","r">>, 500),
    Fixed(<<"h","e","a","d","l","i","g","h","t"," ","b","u","l","b">>, 300),
    Range(<<"w","i","n","d","o","w"," ","r","e","g","u","l","a","t","o","r">>, 1500, 2500),
    Range(<<"w","h","e","e","l"," ","b","e","a","r","i","n","g">>, 1500, 2500)
  >>

FLAT_RATES_002 ==
  <<
    Fixed(<<"o","i","l"," ","c","h","a","n","g","e">>, 500),
    Fixed(<<"o","i","l"," ","c","h","a","n","g","e"," ","b","a","s","i","c">>, 500),
    Fixed(<<"o","i","l"," ","c","h","a","n","g","e"," ","s","y","n","t","h","e","t","i","c">>, 500),
    Fixed(<<"o","i","l"," ","a","n","d"," ","f","i","l","t","e","r">>, 500),
    Fixed(<<"o","i","l"," ","c","h","a","n","g","e"," ","+"," ","r","o","t","a","t","i","o","n">>, 1000),
    Fixed(<<"o","i","l"," ","c","h","a","n","g","e"," ","a","n","d"," ","t","i","r","e"," ","r","o","t","a","t","i","o","n">>, 1000),
    Fixed(<<"t","i","r","e"," ","r","o","t","a","t","i","o","n">>, 500),
    Fixed(<<"r","o","t","a","t","e"," ","t","i","r","e","s">>, 500),
    Fixed(<<"b","a","t","t","e","r","y"," ","r","e","p","l","a","c","e","m","e","n","t">>, 300),
    Fixed(<<"b","a","t","t","e","r","y"," ","i","n","s","t","a","l","l">>, 300),
    Fixed(<<"r","e","p","l","a","c","e"," ","b","a","t","t","e","r","y">>, 300),
    Fixed(<<"w","i","p","e","r"," ","b","l","a","d","e","s">>, 200),
    Fixed(<<"w","i","n","d","s","h","i","e","l","d"," ","w","i","p","e","r","s">>, 200),
    Fixed(<<"a","i","r"," ","f","i","l","t","e","r">>, 300),
    Fixed(<<"e","n","g","i","n","e"," ","a","i","r"," ","f","i","l","t","e","r">>, 300),
    Fixed(<<"c","a","b","i","n"," ","f","i","l","t","e","r">>, 400),
    Fixed(<<"c","a","b","i","n"," ","a","i","r"," ","f","i","l","t","e","r">>, 400),
    Fixed(<<"b","r","a","k","e"," ","f","l","u","i","d"," ","f","l","u","s","h">>, 750),
    Fixed(<<"b","r","a","k","e"," ","f","l","u","i","d"," ","c","h","a","n","g","e">>, 750),
    Fixed(<<"c","o","o","l","a","n","t"," ","f","l","u","s","h">>, 1000),
    Fixed(<<"r","a","d","i","a","t","o","r"," ","f","l","u","s","h">>, 1000),
    Fixed(<<"c","o","o","l","a","n","t"," ","c","h","a","n","g","e">>, 1000),
    Fixed(<<"t","r","a","n","s","m","i","s","s","i","o","n"," ","f","l","u","i","d">>, 1000),
    Fixed(<<"t","r","a","n","s","m","i","s","s","i","o","n"," ","f","l","u","i","d"," ","c","h","a","n","g","e">>, 1000),
    Fixed(<<"t","r","a","n","s"," ","f","l","u","i","d">>, 1000),
    Fixed(<<"p","o","w","e","r"," ","s","t","e","e","r","i","n","g"," ","f","l","u","s","h">>, 500),
    Fixed(<<"p","o","w","e","r"," ","s","t","e","e","r","i","n","g"," ","f","l","u","i","d">>, 500),
    Fixed(<<"d","i","f","f","e","r","e","n","t","i","a","l"," ","f","l","u","i","d">>, 750),
    Fixed(<<"d","i","f","f"," ","f","l","u","i","d">>, 750),
    Fixed(<<"t","h","e","r","m","o","s","t","a","t">>, 1000),
    Fixed(<<"t","h","e","r","m","o","s","t","a","t"," ","r","e","p","l","a","c","e","m","e","n","t">>, 1000),
    Fixed(<<"w","a","t","e","r"," ","p","u","m","p">>, 2500),
    Fixed(<<"w","a","t","e","r"," ","p","u","m","p"," ","r","e","p","l","a","c","e","m","e","n","t">>, 2500),
    Fixed(<<"c","o","o","l","a","n","t"," ","p","u","m","p">>, 2500),
    Range(<<"r","a","d","i","a","t","o","r">>, 2000, 3500),
    Range(<<"r","a","d","i","a","t","o","r"," ","r","e","p","l","a","c","e","m","e","n","t">>, 2000, 3500),
    Fixed(<<"r","a","d","i","a","t","o","r"," ","h","o","s","e">>, 500),
    Fixed(<<"c","o","o","l","a","n","t"," ","h","o","s","e">>, 500),
    Range(<<"b","r","a","k","e"," ","p","a","d","s"," ","f","r","o","n","t">>, 1500, 2000),
    Range(<<"f","r","o","n","t"," ","b","r","a","k","e"," ","p","a","d","s">>, 1500, 2000),
    Range(<<"f","r","o","n","t"," ","b","r","a","k","e","s">>, 1500, 2000),
    Range(<<"b","r","a","k","e"," ","p","a","d","s"," ","r","e","a","r">>, 1500, 2000),
    Range(<<"r","e","a","r"," ","b","r","a","k","e"," ","p","a","d","s">>, 1500, 2000),
    Range(<<"r","e","a","r"," ","b","r","a","k","e","s">>, 1500, 2000),
    Range(<<"b","r","a","k","e"," ","p","a","d","s"," ","a","n","d"," ","r","o","t","o","r","s"," ","f","r","o","n","t">>, 2000, 2500),
    Range(<<"f","r","o","n","t"," ","b","r","a","k","e"," ","p","a","d","s"," ","a","n","d"," ","r","o","t","o","r","s">>, 2000, 2500),
    Range(<<"b","r","a","k","e"," ","p","a","d","s"," ","a","n","d"," ","r","o","t","o","r","s"," ","r","e","a","r">>, 2000, 2500),
    Range(<<"r","e","a","r"," ","b","r","a","k","e"," ","p","a","d","s"," ","a","n","d"," ","r","o","t","o","r","s">>, 2000, 2500),
    Range(<<"b","r","a","k","e"," ","c","a","l","i","p","e","r">>, 1000, 1500),
    Range(<<"c","a","l","i","p","e","r"," ","r","e","p","l","a","c","e","m","e","n","t">>, 1000, 1500),
    Range(<<"a","l","t","e","r","n","a","t","o","r">>, 1500, 3500),
    Range(<<"a","l","t","e","r","n","a","t","o","r"," ","r","e","p","l","a","c","e","m","e","n","t">>, 1500, 3500),
    Range(<<"s","t","a","r","t","e","r">>, 1500, 3500),
    Range(<<"s","t","a","r","t","e","r"," ","m","o","t","o","r">>, 1500, 3500),
    Range(<<"s","t","a","r","t","e","r"," ","r","e","p","l","a","c","e","m","e","n","t">>, 1500, 3500),
    Fixed(<<"b","a","t","t","e","r","y"," ","t","e","r","m","i","n","a","l","s">>, 300),
    Fixed(<<"b","a","t","t","e","r","y"," ","t","e","r","m","i","n","a","l"," ","c","l","e","a","n","i","n","g">>, 300),
    Range(<<"s","p","a","r","k"," ","p","l","u","g","s">>, 750, 2000),
    Range(<<"s","p","a","r","k"," ","p","l","u","g"," ","r","e","p","l","a","c","e","m","e","n","t">>, 750, 2000),
    Range(<<"i","g","n","i","t","i","o","n"," ","c","o","i","l">>, 500, 1000),
    Range(<<"c","o","i","l"," ","p","a","c","k">>, 500, 1000),
    Range(<<"s","e","r","p","e","n","t","i","n","e"," ","b","e","l","t">>, 500, 1000),
    Range(<<"d","r","i","v","e"," ","b","e","l","t">>, 500, 1000),
    Range(<<"a","c","c","e","s","s","o","r","y"," ","b","e","l","t">>, 500, 1000),
    Range(<<"t","i","m","i","n","g"," ","b","e","l","t">>, 4000, 8000),
    Fixed(<<"b","e","l","t"," ","t","e","n","s","i","o","n","e","r">>, 750),
    Range(<<"t","i","e"," ","r","o","d"," ","e","n","d">>, 1000, 1500),
    Range(<<"t","i","e"," ","r","o","d">>, 1000, 1500),
    Range(<<"b","a","l","l"," ","j","o","i","n","t">>, 1500, 2500),
    Range(<<"c","o","n","t","r","o","l"," ","a","r","m">>, 1500, 2500),
    Fixed(<<"s","w","a","y"," ","b","a","r"," ","l","i","n","k">>, 750),
    Fixed(<<"s","t","a","b","i","l","i","z","e","r"," ","l","i","n","k">>, 750),
    Range(<<"s","h","o","c","k"," ","a","b","s","o","r","b","e","r">>, 1000, 1500),
    Range(<<"s","t","r","u","t">>, 1500, 2500),
    Range(<<"f","u","e","l"," ","p","u","m","p">>, 2000, 3500),
    Range(<<"f","u","e","l"," ","p","u","m","p"," ","r","e","p","l","a","c","e","m","e","n","t">>, 2000, 3500),
    Fixed(<<"f","u","e","l"," ","f","i","l","t","e","r">>, 500),
    Range(<<"f","u","e","l"," ","i","n","j","e","c","t","o","r">>, 1000, 2000),
    Range(<<"m","u","f","f","l","e","r">>, 1000, 1500),
    Range(<<"m","u","f","f","l","e","r"," ","r","e","p","l","a","c","e","m","e","n","t">>, 1000, 1500),
    Range(<<"c","a","t","a","l","y","t","i","c"," ","c","o","n","v","e","r","t","e","r">>, 1500, 2500),
    Range(<<"c","a","t"," ","c","o","n","v","e","r","t","e","r">>, 1500, 2500),
    Fixed(<<"o","x","y","g","e","n"," ","s","e","n","s","o","r">>, 500),
    Fixed(<<"o","2"," ","s","e","n","s","o","r">>, 500),
    Fixed(<<"h","e","a","d","l","i","g","h","t"," ","b","u","l","b">>, 300),
    Fixed(<<"h","e","a","d","l","i","g","h","t"," ","r","e","p","l","a","c","e","m","e","n","t">>, 300),
    Fixed(<<"t","a","i","l","l","i","g","h","t"," ","b","u","l","b">>, 200),
    Fixed(<<"d","o","o","r"," ","h","a","n","d","l","e">>, 750),
    Range(<<"w","i","n","d","o","w"," ","r","e","g","u","l","a","t","o","r">>, 1500, 2500),
    Range(<<"w","h","e","e","l"," ","b","e","a","r","i","n","g">>, 1500, 2500),
    Range(<<"h","u","b"," ","b","e","a","r","i","n","g">>, 1500, 2500)
  >>

\* mutation: the last entry, from index i on, whose key the description includes
scanFlatRates_last(table, desc, i) ==
  LET hits == {j \in i..Len(table) : includes(desc, table[j].job)}
  IN  IF hits = {} THEN NoMatch
      ELSE table[CHOOSE j \in hits : \A h \in hits : h <= j]

\* mutation: the entry with the longest key the description includes
scanFlatRates_longest(table, desc, i) ==
  LET hits == {j \in i..Len(table) : includes(desc, table[j].job)}
  IN  IF hits = {} THEN NoMatch
      ELSE table[CHOOSE j \in hits :
                   \A h \in hits : Len(table[h].job) <= Len(table[j].job)]

\* for (const [job, hours] of Object.entries(FLAT_RATES))
\*   if (desc.includes(job)) return { job, hours };
\* return null;
\* the loop from entry i on: it returns at the first entry, in declaration
\* order, whose key the description includes
scanFlatRates(table, desc, i) ==
  LET hits == {j \in i..Len(table) : includes(desc, table[j].job)}
  IN  IF hits = {} THEN NoMatch
      ELSE table[CHOOSE j \in hits : \A h \in hits : j <= h]

\* getFlatRate(description) over a given table
getFlatRateIn(table, description) ==
  scanFlatRates(table, trim(toLowerCase(description)), 1)

\* getFlatRate of server.js, over FLAT_RATES
getFlatRate(description) == getFlatRateIn(FLAT_RATES, description)

\* getFlatRate of the extended table
getFlatRate_002(description) == getFlatRateIn(FLAT_RATES_002, description)

(***************************************************************************)
(* JavaScript values and the coercions the handlers apply to them.         *)
(***************************************************************************)
undefined == [k |-> "undef", n |-> 0, s |-> <<>>]

null == [k |-> "null", n |-> 0, s |-> <<>>]

NaN == [k |-> "nan", n |-> 0, s |-> <<>>]

\* a non-array object such as {}
Obj == [k |-> "obj", n |-> 0, s |-> <<>>]

\* an array whose elements the model does not look at (a list of strings)
Arr == [k |-> "arr", n |-> 0, s |-> <<>>]

\* the empty array literal []
EmptyArr == [k |-> "arr0", n |-> 0, s |-> <<>>]

Num(n) == [k |-> "num", n |-> n, s |-> <<>>]

Str(s) == [k |-> "str", n |-> 0, s |-> s]

\* typeof v === 'number' (NaN is a number)
IsNumber(v) == v.k \in {"num", "nan"}

\* ToBoolean: undefined, null, 0, NaN and "" are falsy
Truthy(v) ==
  CASE v.k \in {"undef", "null", "nan"} -> FALSE
    [] v.k = "num" -> v.n # 0
    [] v.k = "str" -> v.s # <<>>
    [] OTHER -> TRUE

\* a || b
Or(a, b) == IF Truthy(a) THEN a ELSE b

\* a ?? b
Nullish(a, b) == IF a.k \in {"undef", "null"} THEN b ELSE a

Digits == <<"0","1","2","3","4","5","6","7","8","9">>

IsDigit(c) == \E i \in 1..10 : Digits[i] = c

DigitVal(c) == (CHOOSE i \in 1..10 : Digits[i] = c) - 1

\* the value of a run of digits read as an integer
RECURSIVE IntOf(_)
IntOf(ds) ==
  IF ds = <<>> THEN 0
  ELSE 10 * IntOf(SubSeq(ds, 1, Len(ds) - 1)) + DigitVal(ds[Len(ds)])

\* the value, in thousandths, of a run of digits read after the point
\* (digits past the third are dropped)
FracOf(ds) ==
  LET d(i) == IF i <= Len(ds) THEN DigitVal(ds[i]) ELSE 0
  IN  100 * d(1) + 10 * d(2) + d(3)

\* the length of the longest run of digits at the head of str
RECURSIVE DigitRun(_)
DigitRun(str) ==
  IF str # <<>> /\ IsDigit(Head(str)) THEN 1 + DigitRun(Tail(str)) ELSE 0

\* StrDecimalLiteral at the head of str: [ok, n (thousandths), len]
\* sign? digits (. digits?)? | sign? . digits ; exponents, hexadecimal
\* literals and Infinity are not modelled
DecimalPrefix(str) ==
  LET neg   == str # <<>> /\ Head(str) = "-"
      sgn   == IF str # <<>> /\ Head(str) \in {"-", "+"} THEN 1 ELSE 0
      r1    == SubSeq(str, sgn + 1, Len(str))
      il    == DigitRun(r1)
      r2    == SubSeq(r1, il + 1, Len(r1))
      dot   == r2 # <<>> /\ Head(r2) = "."
      fl    == IF dot THEN DigitRun(Tail(r2)) ELSE 0
      useFr == dot /\ (il > 0 \/ fl > 0)
      mag   == 1000 * IntOf(SubSeq(r1, 1, il))
               + (IF useFr THEN FracOf(SubSeq(Tail(r2), 1, fl)) ELSE 0)
  IN  [ok  |-> il > 0 \/ fl > 0,
       n   |-> IF neg THEN 0 - mag ELSE mag,
       len |-> sgn + il + (IF useFr THEN 1 + fl ELSE 0)]

\* the characters of str after its leading white space
RECURSIVE trimStart(_)
trimStart(str) ==
  IF str # <<>> /\ Head(str) \in WhiteSpace THEN trimStart(Tail(str)) ELSE str

\* parseFloat of a string: the longest numeric prefix, NaN when there is none
parseFloatStr(str) ==
  LET p == DecimalPrefix(trimStart(str))
  IN  IF p.ok THEN Num(p.n) ELSE NaN

\* ToNumber of a string: the whole trimmed string must be a literal
NumberStr(str) ==
  LET t == trim(str)
      p == DecimalPrefix(t)
  IN  IF t = <<>> THEN Num(0)
      ELSE IF p.ok /\ p.len = Len(t) THEN Num(p.n) ELSE NaN

\* parseFloat(v) = parseFloat(String(v))
parseFloat(v) ==
  CASE v.k = "num" -> v
    [] v.k = "str" -> parseFloatStr(v.s)
    [] OTHER -> NaN

\* Number(v), also the ToNumber applied by * and /
Number(v) ==
  CASE v.k = "num" -> v
    [] v.k = "str" -> NumberStr(v.s)
    [] v.k = "null" -> Num(0)
    [] v.k = "arr0" -> Num(0)
    [] OTHER -> NaN

\* Math.round: to the nearest integer, halves toward +Infinity
MathRound(v) ==
  IF v.k # "num" THEN NaN
  ELSE Num(1000 * ((v.n + 500) \div 1000))

\* a / b for a >= 0, b > 0, rounded to the nearest integer, halves up
RoundDiv(a, b) ==
  LET q == a \div b
      r == a % b
  IN  IF 2 * r >= b THEN q + 1 ELSE q

\* Number(x.toFixed(2)) for x = num / den, as thousandths: the nearest
\* hundredth of x, halves away from zero (toFixed rounds the magnitude)
toFixed2(num, den) ==
  IF num >= 0 THEN 10 * RoundDiv(num, den \div 100)
  ELSE 0 - 10 * RoundDiv(0 - num, den \div 100)

\* Number((a * b).toFixed(2))
MulFixed2(a, b) ==
  LET x == Number(a)
      y == Number(b)
  IN  IF x.k = "num" /\ y.k = "num"
      THEN Num(toFixed2(x.n * y.n, 1000000)) ELSE NaN

\* Number((a * (b / 100)).toFixed(2))
PercentFixed2(a, b) ==
  LET x == Number(a)
      y == Number(b)
  IN  IF x.k = "num" /\ y.k = "num"
      THEN Num(toFixed2(x.n * y.n, 100000000)) ELSE NaN

\* a + b on numbers
Add(a, b) ==
  IF a.k = "num" /\ b.k = "num" THEN Num(a.n + b.n) ELSE NaN

\* a - b on numbers
Sub(a, b) ==
  IF a.k = "num" /\ b.k = "num" THEN Num(a.n - b.n) ELSE NaN

\* Number(a.toFixed(2))
Fixed2(a) ==
  IF a.k = "num" THEN Num(toFixed2(a.n, 1000)) ELSE NaN

(***************************************************************************)
(* Program constants.                                                      *)
(***************************************************************************)
\* Number(process.env.DEFAULT_LABOR_RATE || 65), with the variable unset
DEFAULT_LABOR_RATE == 65000

\* the default of estimate.shopSuppliesPercent
DefaultSuppliesPercent == 7000

\* const taxRate = 28
taxRate == 28

(***************************************************************************)
(* Raw estimates: the object JSON.parse returns from the model's reply.    *)
(* A parts value is [v, items]: an array when v = Arr (items holds its     *)
(* elements), any other value v otherwise.  An element of parts is         *)
(* [v, name, cost]: an object when v = Obj, any other value v otherwise.   *)
(***************************************************************************)
Part(name, cost) == [v |-> Obj, name |-> name, cost |-> cost]

NonObject(v) == [v |-> v, name |-> undefined, cost |-> undefined]

PartsArray(items) == [v |-> Arr, items |-> items]

PartsValue(v) == [v |-> v, items |-> <<>>]

RawEstimate(h, r, pct, parts, tips) ==
  [laborHours |-> h, laborRate |-> r, shopSuppliesPercent |-> pct,
   parts |-> parts, tips |-> tips]

\* p.name, p.cost: reading a property of null or undefined throws
Throws(p) == p.v.k \in {"null", "undef"}

\* 'Part'
PartName == Str(<<"P","a","r","t">>)

\* p => ({ name: p.name || 'Part', cost: Math.round(Number(p.cost || 0)) })
NormalizePart(p) ==
  [name |-> Or(p.name, PartName),
   cost |-> MathRound(Number(Or(p.cost, Num(0))))]

\* p => ({ name: p.name, cost: Math.round(Number(p.cost || 0)) })
NormalizePartFirst(p) ==
  [name |-> p.name,
   cost |-> MathRound(Number(Or(p.cost, Num(0))))]

\* (estimate.parts || []) is something .map can be called on
PartsMappable(parts) == ~Truthy(parts.v) \/ parts.v.k = "arr"

\* (estimate.parts || []).map(f) throws a TypeError
PartsMapThrows(parts) ==
  \/ ~PartsMappable(parts)
  \/ /\ parts.v.k = "arr"
     /\ \E i \in 1..Len(parts.items) : Throws(parts.items[i])

\* the elements .map visits
PartsItems(parts) == IF parts.v.k = "arr" THEN parts.items ELSE <<>>

\* estimate.parts.reduce((s, p) => s + Number(p.cost || 0), 0)
RECURSIVE SumParts(_)
SumParts(parts) ==
  IF parts = <<>> THEN Num(0)
  ELSE Add(SumParts(SubSeq(parts, 1, Len(parts) - 1)),
           Number(Or(parts[Len(parts)].cost, Num(0))))

(***************************************************************************)
(* Inputs of the model.                                                    *)
(***************************************************************************)
OilChange == <<"o","i","l"," ","c","h","a","n","g","e">>

AlternatorJob ==
  <<"A","l","t","e","r","n","a","t","o","r"," ",
    "r","e","p","l","a","c","e","m","e","n","t">>

BrakeJob ==
  <<"R","e","p","l","a","c","e"," ","f","r","o","n","t"," ",
    "b","r","a","k","e"," ","p","a","d","s"," ","a","n","d"," ",
    "r","o","t","o","r","s">>

TooShort == <<"a","b">>

Descriptions == {OilChange, AlternatorJob, BrakeJob, TooShort}

\* laborRate of the request body: absent, 0, 80, -20
CallerRates == {undefined, Num(0), Num(80000), Num(0 - 20000)}

Customer(name, email, phone) == [name |-> name, email |-> email, phone |-> phone]

\* "" stands for an absent (or empty) email or phone
Customers ==
  {Customer("Pat", "pat@x", "555"), Customer("Pat", "", "555"),
   Customer("Pat", "", "")}

CustomerRow(id, c) == [id |-> id, name |-> c.name, email |-> c.email, phone |-> c.phone]

\* the contents of the customers table when the request arrives
InitialCustomers == {{}, {CustomerRow(1, Customer("Pat", "pat@x", "555"))}}

Request(variant, description, rate, customer) ==
  [variant |-> variant, description |-> description,
   laborRate |-> rate, customer |-> customer]

\* the three handlers of POST /api/generate-estimate that are modelled:
\*   "first"  server.js:547   (no caller rate, no flat-rate override)
\*   "v3"     server.js:887   (caller rate forced, flat-rate override, tax)
\*   "totals" part_004:786    (totals computed for the frontend, no store)
Variants == {"first", "v3", "totals"}

\* bodies the schema may reject for another field than description: a
\* laborRate that is a string, a customer whose name is missing
MalformedFields ==
  {<<Str(<<"8","0">>), Customer("Pat", "pat@x", "555")>>,
   <<undefined, Customer("", "pat@x", "555")>>}

Requests ==
  {Request(v, d, r, Customer("Pat", "pat@x", "555")) :
      v \in Variants, d \in Descriptions, r \in CallerRates}
  \cup
  {Request(v, OilChange, Num(80000), c) : v \in Variants, c \in Customers}
  \cup
  {Request(v, OilChange, r, c) : v \in Variants, <<r, c>> \in MalformedFields}

HoursValues ==
  {undefined, Num(1500), Num(0 - 1000), Str(<<"2",".","5">>), Str(<<"a","b","c">>)}

RateValues == {undefined, Num(70000), Num(0 - 10000), Str(<<"a","b","c">>)}

PercentValues ==
  {undefined, null, Num(0), Num(10000), Num(0 - 2000), Str(<<"a","b","c">>)}

TipsValues == {undefined, Arr, Str(<<"x">>)}

Pads == Str(<<"P","a","d","s">>)

PartEntries ==
  {Part(Pads, Num(49500)), Part(undefined, Num(0 - 5000)),
   Part(Pads, Str(<<"a","b","c">>)), Part(Pads, undefined), NonObject(null)}

\* all sequences over S of length at most n
RECURSIVE SeqsUpTo(_, _)
SeqsUpTo(S, n) ==
  IF n = 0 THEN {<<>>}
  ELSE LET shorter == SeqsUpTo(S, n - 1)
       IN  shorter \cup {Append(q, x) : q \in shorter, x \in S}

PartsValues ==
  {PartsArray(q) : q \in SeqsUpTo(PartEntries, MaxParts)}
  \cup {PartsValue(undefined), PartsValue(Str(<<"n","/","a">>)), PartsValue(Obj)}

OnePart == PartsArray(<<Part(Pads, Num(49500))>>)

\* the replies of the text-generation service to the first and v3 handlers
RawEstimates ==
  {RawEstimate(h, r, Num(7000), OnePart, t) :
      h \in HoursValues, r \in RateValues, t \in TipsValues}
  \cup
  {RawEstimate(Num(1500), undefined, pct, p, undefined) :
      pct \in PercentValues, p \in PartsValues}

\* The totals handler adds and multiplies the raw fields without rounding
\* or converting them; its replies are numbers, absent fields and null
\* elements, chosen so that every product is exact in thousandths: whole
\* hours, dollars and percents, and an eighth of an hour at 65 an hour with
\* a surcharge of 100 percent.
TotalsPartEntries ==
  {Part(Pads, Num(40000)), Part(Pads, undefined), NonObject(null)}

RawEstimatesTotals ==
  {RawEstimate(h, r, pct, p, undefined) :
      h \in {undefined, Num(1000)}, r \in {undefined, Num(70000)},
      pct \in {undefined, Num(0), Num(10000)},
      p \in {PartsArray(q) : q \in SeqsUpTo(TotalsPartEntries, MaxParts)}
            \cup {PartsValue(undefined), PartsValue(Obj)}}
  \cup
  {RawEstimate(Num(125), Num(65000), Num(100000), PartsValue(undefined), undefined)}

RepliesFor(variant) ==
  IF variant = "totals" THEN RawEstimatesTotals ELSE RawEstimates

(***************************************************************************)
(* State.                                                                  *)
(***************************************************************************)
VARIABLES
  pc,              \* where the handler of the request is
  req,             \* the request: handler variant and validated body
  raw,             \* the object parsed from the reply of the service
  est,             \* the estimate object as the handler has rewritten it
  totals,          \* laborCost, partsCost, shopSupplies, subtotal, tax
  customers,       \* rows of the customers table
  jobs,            \* rows of the jobs table
  customerRecord,  \* the handler's customerRecord
  savedJob,        \* the handler's savedJob
  resp,            \* the response sent, if any
  frTable,         \* getFlatRate call: the table it is called on
  frInput,         \* getFlatRate call: the description
  frResult,        \* getFlatRate call: the value returned
  frPc,            \* getFlatRate call: "call" before, "done" after
  fwrPc,           \* fetchWithRetry call: where it is
  fwrI,            \* fetchWithRetry call: the loop counter i
  fwrRetries,      \* fetchWithRetry call: the parameter retries
  fwrBackoff,      \* fetchWithRetry call: the variable backoff, in ms
  fwrBackoffArg,   \* fetchWithRetry call: the argument backoff of the call
  fwrWaits,        \* fetchWithRetry call: the waits made, in ms
  fwrAborted,      \* fetchWithRetry call: options.signal.aborted
  fwrLog,          \* fetchWithRetry call: the outcomes of the fetches made
  fwrResult,       \* fetchWithRetry call: the response returned, if any
  exPc,            \* JSON extraction: "call" before, "done" after
  exText,          \* JSON extraction: the content of the reply
  exResult,        \* JSON extraction: the object parsed, or the failure
  cuPc,            \* POST /api/customers, per request: where its handler is
  cuBody,          \* POST /api/customers, per request: name, email, phone
  cuExisting,      \* POST /api/customers, per request: the variable existing
  accessCodes,     \* rows of the access_codes table
  acPc,            \* POST /api/validate-access, per request: where it is
  acBody,          \* POST /api/validate-access, per request: accessCode
  acData,          \* POST /api/validate-access, per request: the row read
  whPc,            \* POST /api/stripe-webhook, per delivery: where it is
  whEvent,         \* POST /api/stripe-webhook, per delivery: the event sent
  estimates,       \* rows of the estimates table
  invoices,        \* rows of the invoices table
  ivPc,            \* POST /api/create-invoice, per request: where it is
  ivBody           \* POST /api/create-invoice, per request: estimateId

vars ==
  <<pc, req, raw, est, totals, customers, jobs, customerRecord, savedJob,
    resp, frTable, frInput, frResult, frPc,
    fwrPc, fwrI, fwrRetries, fwrBackoff, fwrBackoffArg, fwrWaits, fwrAborted,
    fwrLog, fwrResult,
    exPc, exText, exResult,
    cuPc, cuBody, cuExisting,
    accessCodes, acPc, acBody, acData, whPc, whEvent,
    estimates, invoices, ivPc, ivBody>>

handlerVars ==
  <<pc, req, raw, est, totals, customers, jobs, customerRecord, savedJob, resp>>

flatVars == <<frTable, frInput, frResult, frPc>>

retryVars ==
  <<fwrPc, fwrI, fwrRetries, fwrBackoff, fwrBackoffArg, fwrWaits, fwrAborted,
    fwrLog, fwrResult>>

extractVars == <<exPc, exText, exResult>>

customerVars == <<cuPc, cuBody, cuExisting>>

accessVars == <<acPc, acBody, acData>>

webhookVars == <<whPc, whEvent>>

invoiceVars == <<estimates, invoices, ivPc, ivBody>>

\* the state of the other routes
routeVars == <<customerVars, accessCodes, accessVars, webhookVars, invoiceVars>>

\* what a step of a handler leaves alone
utilityVars == <<flatVars, retryVars, extractVars, routeVars>>

\* no reply parsed yet (NaN is not a JSON value: no reply equals it)
NoRaw == RawEstimate(NaN, NaN, NaN, PartsValue(undefined), undefined)

NoEst ==
  [laborHours |-> undefined, laborRate |-> undefined,
   shopSuppliesPercent |-> undefined, parts |-> <<>>, tips |-> undefined]

NoTotals ==
  [laborCost |-> undefined, partsCost |-> undefined, shopSupplies |-> undefined,
   subtotal |-> undefined, recommendedTaxSetaside |-> undefined,
   netAfterTax |-> undefined]

NoCustomer == CustomerRow(0, Customer("", "", ""))

NoJob ==
  [id |-> 0, customer_id |-> 0, estimated_labor_hours |-> undefined,
   estimated_labor_rate |-> undefined, estimated_labor_cost |-> undefined,
   estimated_parts_cost |-> undefined,
   estimated_shop_supplies_percent |-> undefined,
   estimated_shop_supplies_cost |-> undefined,
   estimated_subtotal |-> undefined]

\* no response sent yet
NoResp ==
  [status |-> 0, ok |-> FALSE, estimate |-> NoEst, totals |-> NoTotals,
   savedJob |-> NoJob, customer |-> NoCustomer]

\* res.status(status).json({ error: ... })
ErrorResp(status) ==
  [status |-> status, ok |-> FALSE, estimate |-> NoEst, totals |-> NoTotals,
   savedJob |-> NoJob, customer |-> NoCustomer]

(***************************************************************************)
(* The steps of the estimate handlers.                                     *)
(***************************************************************************)
\* GenerateSchema: description z.string().min(3), customer.name
\* z.string().min(1), and in the v3 handler laborRate z.number().optional();
\* the schema of the other handlers has no laborRate key and z.object drops
\* the keys it does not know
SchemaAccepts(body) ==
  /\ Len(body.description) >= 3
  /\ body.customer.name # ""
  /\ body.variant = "v3" => body.laborRate.k \in {"undef", "num"}

\* the status the catch block answers a ZodError with
ZodErrorStatus(variant) == IF variant = "v3" THEN 500 ELSE 400

\* GenerateSchema.parse(req.body)
Validate ==
  /\ pc = "received"
  /\ IF SchemaAccepts(req)
     THEN /\ pc' = "validated"
          /\ resp' = resp
     ELSE /\ pc' = "responded"
          /\ resp' = ErrorResp(ZodErrorStatus(req.variant))
  /\ UNCHANGED <<req, raw, est, totals, customers, jobs, customerRecord, savedJob>>
  /\ UNCHANGED utilityVars

\* await fetch(...) returns a response whose status is 2xx
Fetch ==
  /\ pc = "validated"
  /\ pc' = "fetched"
  /\ UNCHANGED <<req, raw, est, totals, customers, jobs, customerRecord, savedJob, resp>>
  /\ UNCHANGED utilityVars

\* await response.json() returns the body, its content is text and
\* JSON.parse makes an object of it
AIReply ==
  /\ pc = "fetched"
  /\ \E r \in RepliesFor(req.variant) : raw' = r
  /\ pc' = "parsed"
  /\ UNCHANGED <<req, est, totals, customers, jobs, customerRecord, savedJob, resp>>
  /\ UNCHANGED utilityVars

\* the ways the fetch fails: a thrown network error, a status that is not
\* 2xx, and the abort of the 60 s timer, which is armed around the fetch
\* alone (clearTimeout follows it); the v3 handler arms no timer
FetchFailures(variant) ==
  {"network", "status"} \cup (IF variant = "v3" THEN {} ELSE {"abort"})

\* the ways the reading of the reply fails: no content, text that is not JSON
BodyFailures == {"notext", "badjson"}

\* the ways the text-generation step fails
AIFailures(variant) == FetchFailures(variant) \cup BodyFailures

\* the status answered: 504 for the AbortError, 500 for the rest
AIFailureStatus(f) == IF f = "abort" THEN 504 ELSE 500

\* the fetch throws, or the status is not 2xx and the handler throws
AIFail ==
  /\ pc = "validated"
  /\ \E f \in FetchFailures(req.variant) : resp' = ErrorResp(AIFailureStatus(f))
  /\ pc' = "responded"
  /\ UNCHANGED <<req, raw, est, totals, customers, jobs, customerRecord, savedJob>>
  /\ UNCHANGED utilityVars

\* mutation: the catch of JSON.parse answers 500 and does not return
BodyFail_noReturn ==
  /\ pc = "fetched"
  /\ \E f \in BodyFailures : resp' = ErrorResp(AIFailureStatus(f))
  /\ pc' = pc
  /\ UNCHANGED <<req, raw, est, totals, customers, jobs, customerRecord, savedJob>>
  /\ UNCHANGED utilityVars

\* if (!text) throw ..., or JSON.parse throws and the handler answers 500
BodyFail ==
  /\ pc = "fetched"
  /\ \E f \in BodyFailures : resp' = ErrorResp(AIFailureStatus(f))
  /\ pc' = "responded"
  /\ UNCHANGED <<req, raw, est, totals, customers, jobs, customerRecord, savedJob>>
  /\ UNCHANGED utilityVars

\* const laborRate = parsed.laborRate || DEFAULT_LABOR_RATE
CallerOrDefaultRate(body) == Or(body.laborRate, Num(DEFAULT_LABOR_RATE))

\* mutation: the rate of the reply is used when the caller gives none
NormalizedRateV3_threeStep(body, r) ==
  IF body.laborRate.k = "num" /\ body.laborRate.n > 0 THEN body.laborRate
  ELSE IF r.laborRate.k = "num" /\ r.laborRate.n > 0 THEN r.laborRate
  ELSE Num(DEFAULT_LABOR_RATE)

\* v3: estimate.laborRate = laborRate
NormalizedRateV3(body, r) == CallerOrDefaultRate(body)

\* first: estimate.laborRate = estimate.laborRate || DEFAULT_LABOR_RATE
NormalizedRateFirst(body, r) == Or(r.laborRate, Num(DEFAULT_LABOR_RATE))

\* mutation: a range overrides the hours too, with its midpoint
FlatRateOverride_midpoint(description, hours) ==
  LET flatRateMatch == getFlatRate(description)
  IN  CASE flatRateMatch.kind = "fixed" -> Num(flatRateMatch.hours)
        [] flatRateMatch.kind = "range" ->
             Num((flatRateMatch.min + flatRateMatch.max) \div 2)
        [] OTHER -> hours

\* v3: if (flatRateMatch && typeof flatRateMatch.hours === 'number')
\*       estimate.laborHours = flatRateMatch.hours
FlatRateOverride(description, hours) ==
  LET flatRateMatch == getFlatRate(description)
  IN  IF flatRateMatch.kind = "fixed" THEN Num(flatRateMatch.hours) ELSE hours

\* v3: estimate.laborHours = parseFloat(estimate.laborHours || 0),
\* after the flat-rate override
NormalizedHoursV3(body, r) ==
  parseFloat(Or(FlatRateOverride(body.description, r.laborHours), Num(0)))

\* estimate.shopSuppliesPercent = estimate.shopSuppliesPercent ?? 7
NormalizedPercent(r) == Nullish(r.shopSuppliesPercent, Num(DefaultSuppliesPercent))

\* estimate.tips = estimate.tips || []
NormalizedList(v) == Or(v, EmptyArr)

\* lines 929-946 of server.js, when nothing throws
NormalizeV3(body, r) ==
  [laborRate |-> NormalizedRateV3(body, r),
   laborHours |-> NormalizedHoursV3(body, r),
   shopSuppliesPercent |-> NormalizedPercent(r),
   parts |-> [i \in 1..Len(PartsItems(r.parts)) |-> NormalizePart(PartsItems(r.parts)[i])],
   tips |-> NormalizedList(r.tips)]

\* lines 610-612 of server.js, when nothing throws
NormalizeFirst(body, r) ==
  [laborRate |-> NormalizedRateFirst(body, r),
   laborHours |-> r.laborHours,
   shopSuppliesPercent |-> NormalizedPercent(r),
   parts |-> [i \in 1..Len(PartsItems(r.parts)) |-> NormalizePartFirst(PartsItems(r.parts)[i])],
   tips |-> r.tips]

\* the normalization statements of the first and v3 handlers; a TypeError
\* raised by .map or by p.name lands in the catch block, which answers 500
Normalize ==
  /\ pc = "parsed"
  /\ req.variant \in {"first", "v3"}
  /\ IF PartsMapThrows(raw.parts)
     THEN /\ pc' = "responded"
          /\ resp' = ErrorResp(500)
          /\ est' = est
     ELSE /\ pc' = "normalized"
          /\ est' = IF req.variant = "v3" THEN NormalizeV3(req, raw)
                    ELSE NormalizeFirst(req, raw)
          /\ resp' = resp
  /\ UNCHANGED <<req, raw, totals, customers, jobs, customerRecord, savedJob>>
  /\ UNCHANGED utilityVars

\* a * b on numbers, not rounded (exact for the inputs of the model)
Mul(a, b) ==
  LET x == Number(a)
      y == Number(b)
  IN  IF x.k = "num" /\ y.k = "num" THEN Num((x.n * y.n) \div 1000) ELSE NaN

\* a * (b / 100) on numbers, not rounded (exact for the inputs of the model)
Percent(a, b) ==
  LET x == Number(a)
      y == Number(b)
  IN  IF x.k = "num" /\ y.k = "num" THEN Num((x.n * y.n) \div 100000) ELSE NaN

\* mutation: the tax set-aside keeps the thousandths of the product
TaxSetaside_unrounded(subtotal) ==
  IF subtotal.k = "num" THEN Num((subtotal.n * taxRate) \div 100) ELSE NaN

\* Number((subtotal * 0.28).toFixed(2))
TaxSetaside(subtotal) ==
  IF subtotal.k = "num" THEN Num(toFixed2(subtotal.n * taxRate, 100000)) ELSE NaN

\* mutation: the labor cost is computed with the rate of the reply
LaborCostV3_replyRate(e) == MulFixed2(e.laborHours, Or(raw.laborRate, e.laborRate))

\* v3: Number((estimate.laborHours * estimate.laborRate).toFixed(2))
LaborCostV3(e) == MulFixed2(e.laborHours, e.laborRate)

\* first: Number((parseFloat(estimate.laborHours || 0) * estimate.laborRate).toFixed(2))
LaborCostFirst(e) == MulFixed2(parseFloat(Or(e.laborHours, Num(0))), e.laborRate)

\* Number((partsCost * (estimate.shopSuppliesPercent / 100)).toFixed(2))
ShopSupplies(partsCost, e) == PercentFixed2(partsCost, e.shopSuppliesPercent)

\* Number((laborCost + partsCost + shopSupplies).toFixed(2))
Subtotal(laborCost, partsCost, shopSupplies) ==
  Fixed2(Add(Add(laborCost, partsCost), shopSupplies))

\* lines 948-954 of server.js
PriceV3(e) ==
  LET laborCost == LaborCostV3(e)
      partsCost == SumParts(e.parts)
      shopSupplies == ShopSupplies(partsCost, e)
      subtotal == Subtotal(laborCost, partsCost, shopSupplies)
      recommendedTaxSetaside == TaxSetaside(subtotal)
  IN  [laborCost |-> laborCost, partsCost |-> partsCost,
       shopSupplies |-> shopSupplies, subtotal |-> subtotal,
       recommendedTaxSetaside |-> recommendedTaxSetaside,
       netAfterTax |-> Fixed2(Sub(subtotal, recommendedTaxSetaside))]

\* lines 614-617 of server.js
PriceFirst(e) ==
  LET laborCost == LaborCostFirst(e)
      partsCost == SumParts(e.parts)
      shopSupplies == ShopSupplies(partsCost, e)
  IN  [laborCost |-> laborCost, partsCost |-> partsCost,
       shopSupplies |-> shopSupplies,
       subtotal |-> Subtotal(laborCost, partsCost, shopSupplies),
       recommendedTaxSetaside |-> undefined, netAfterTax |-> undefined]

\* totals: estimate.parts.reduce((sum, p) => sum + (p.cost || 0), 0)
RECURSIVE SumRawParts(_)
SumRawParts(items) ==
  IF items = <<>> THEN Num(0)
  ELSE Add(SumRawParts(SubSeq(items, 1, Len(items) - 1)),
           Or(items[Len(items)].cost, Num(0)))

\* totals: Array.isArray(estimate.parts) ? estimate.parts.reduce(...) : 0
PartsCostTotals(r) ==
  IF r.parts.v.k = "arr" THEN SumRawParts(r.parts.items) ELSE Num(0)

\* totals: (estimate.laborHours || 0) * (estimate.laborRate || DEFAULT_LABOR_RATE)
LaborCostTotals(r) ==
  Mul(Or(r.laborHours, Num(0)), Or(r.laborRate, Num(DEFAULT_LABOR_RATE)))

\* totals: (laborCost + partsCost) * ((estimate.shopSuppliesPercent || 7) / 100)
ShopSuppliesTotals(laborCost, partsCost, r) ==
  Percent(Add(laborCost, partsCost),
          Or(r.shopSuppliesPercent, Num(DefaultSuppliesPercent)))

\* lines 901-906 of part_004
PriceTotals(r) ==
  LET laborCost == LaborCostTotals(r)
      partsCost == PartsCostTotals(r)
      shopSupplies == ShopSuppliesTotals(laborCost, partsCost, r)
  IN  [laborCost |-> laborCost, partsCost |-> partsCost,
       shopSupplies |-> shopSupplies,
       subtotal |-> Add(Add(laborCost, partsCost), shopSupplies),
       recommendedTaxSetaside |-> undefined, netAfterTax |-> undefined]

\* totals: the reduce callback reads p.cost of a null element
PriceTotalsThrows(r) ==
  /\ r.parts.v.k = "arr"
  /\ \E i \in 1..Len(r.parts.items) : Throws(r.parts.items[i])

\* totals: the estimate object is the parsed object, fields untouched
UntouchedEstimate(r) ==
  [laborRate |-> r.laborRate, laborHours |-> r.laborHours,
   shopSuppliesPercent |-> r.shopSuppliesPercent,
   parts |-> [i \in 1..Len(PartsItems(r.parts)) |->
                [name |-> PartsItems(r.parts)[i].name,
                 cost |-> PartsItems(r.parts)[i].cost]],
   tips |-> r.tips]

\* the pricing statements of the first and v3 handlers
Price ==
  /\ pc = "normalized"
  /\ totals' = IF req.variant = "v3" THEN PriceV3(est) ELSE PriceFirst(est)
  /\ pc' = "priced"
  /\ UNCHANGED <<req, raw, est, customers, jobs, customerRecord, savedJob, resp>>
  /\ UNCHANGED utilityVars

\* the totals handler: compute the totals on the parsed object and answer
\* { ok: true, estimate }, with no savedJob and no customer
PriceAndRespondTotals ==
  /\ pc = "parsed"
  /\ req.variant = "totals"
  /\ IF PriceTotalsThrows(raw)
     THEN /\ resp' = ErrorResp(500)
          /\ UNCHANGED <<est, totals>>
     ELSE /\ est' = UntouchedEstimate(raw)
          /\ totals' = PriceTotals(raw)
          /\ resp' = [status |-> 200, ok |-> TRUE, estimate |-> est',
                       totals |-> totals', savedJob |-> NoJob,
                       customer |-> NoCustomer]
  /\ pc' = "responded"
  /\ UNCHANGED <<req, raw, customers, jobs, customerRecord, savedJob>>
  /\ UNCHANGED utilityVars

(***************************************************************************)
(* The store: customers and jobs tables.                                   *)
(***************************************************************************)
Max(S) == CHOOSE x \in S : \A y \in S : y <= x

\* the id the store gives a new row of a table
NewId(rows) == IF rows = {} THEN 1 ELSE Max({r.id : r \in rows}) + 1

\* mutation: the customer is looked up by email before the service is called
LookupEmail_early ==
  /\ pc = "validated"
  /\ \E c \in customers :
       /\ c.email = req.customer.email
       /\ customerRecord' = c
  /\ UNCHANGED <<pc, req, raw, est, totals, customers, jobs, savedJob, resp>>
  /\ UNCHANGED utilityVars

\* select('*').eq('email', ...).limit(1): a matching row, or nothing; the
\* handler reads only data, so a failed select counts as nothing found
LookupEmail ==
  /\ pc = "priced"
  /\ IF req.customer.email # ""
     THEN \/ \E c \in customers :
               /\ c.email = req.customer.email
               /\ customerRecord' = c
          \/ customerRecord' = customerRecord
     ELSE customerRecord' = customerRecord
  /\ pc' = "emailChecked"
  /\ UNCHANGED <<req, raw, est, totals, customers, jobs, savedJob, resp>>
  /\ UNCHANGED utilityVars

\* if (!customerRecord && customer.phone) select by phone
LookupPhone ==
  /\ pc = "emailChecked"
  /\ IF customerRecord = NoCustomer /\ req.customer.phone # ""
     THEN \/ \E c \in customers :
               /\ c.phone = req.customer.phone
               /\ customerRecord' = c
          \/ customerRecord' = customerRecord
     ELSE customerRecord' = customerRecord
  /\ pc' = "phoneChecked"
  /\ UNCHANGED <<req, raw, est, totals, customers, jobs, savedJob, resp>>
  /\ UNCHANGED utilityVars

\* if (!customerRecord) insert; if (error) throw error
InsertCustomer ==
  /\ pc = "phoneChecked"
  /\ IF customerRecord = NoCustomer
     THEN \/ /\ customerRecord' = CustomerRow(NewId(customers), req.customer)
             /\ customers' = customers \cup {customerRecord'}
             /\ pc' = "customerSaved"
             /\ resp' = resp
          \/ /\ resp' = ErrorResp(500)
             /\ pc' = "responded"
             /\ UNCHANGED <<customers, customerRecord>>
     ELSE /\ pc' = "customerSaved"
          /\ UNCHANGED <<customers, customerRecord, resp>>
  /\ UNCHANGED <<req, raw, est, totals, jobs, savedJob>>
  /\ UNCHANGED utilityVars

\* the row handed to supabase.from('jobs').insert
JobPayload(id) ==
  [id |-> id, customer_id |-> customerRecord.id,
   estimated_labor_hours |-> est.laborHours,
   estimated_labor_rate |-> est.laborRate,
   estimated_labor_cost |-> totals.laborCost,
   estimated_parts_cost |-> totals.partsCost,
   estimated_shop_supplies_percent |-> est.shopSuppliesPercent,
   estimated_shop_supplies_cost |-> totals.shopSupplies,
   estimated_subtotal |-> totals.subtotal]

\* supabase.from('jobs').insert(...).select().single(); if (jobErr) throw jobErr
InsertJob ==
  /\ pc = "customerSaved"
  /\ \/ /\ savedJob' = JobPayload(NewId(jobs))
        /\ jobs' = jobs \cup {savedJob'}
        /\ pc' = "jobSaved"
        /\ resp' = resp
     \/ /\ resp' = ErrorResp(500)
        /\ pc' = "responded"
        /\ UNCHANGED <<jobs, savedJob>>
  /\ UNCHANGED <<req, raw, est, totals, customers, customerRecord>>
  /\ UNCHANGED utilityVars

\* res.json({ ok: true, estimate: { ...estimate, laborCost, ... }, savedJob, customer })
Respond ==
  /\ pc = "jobSaved"
  /\ resp' = [status |-> 200, ok |-> TRUE, estimate |-> est, totals |-> totals,
               savedJob |-> savedJob, customer |-> customerRecord]
  /\ pc' = "responded"
  /\ UNCHANGED <<req, raw, est, totals, customers, jobs, customerRecord, savedJob>>
  /\ UNCHANGED utilityVars


(***************************************************************************)
(* Requests handled at the same time.  The handlers are async functions:   *)
(* each await hands control back to the event loop, so the code between    *)
(* two awaits of a request runs in one piece and the other requests run    *)
(* between them.                                                           *)
(***************************************************************************)
Requesters == 1..MaxRequests

\* what the rest of a route's step leaves alone of the estimate handler
handlerButCustomers ==
  <<pc, req, raw, est, totals, jobs, customerRecord, savedJob, resp>>

(***************************************************************************)
(* POST /api/customers, and the customer step of generate-estimate, which  *)
(* is the same sequence of selects and insert.                             *)
(***************************************************************************)
\* the bodies of the requests: two keys shared, one customer apart, one
\* body without a name
CustomerBodies ==
  {Customer("Pat", "pat@x", "555"), Customer("Pat", "pat@x", ""),
   Customer("Pat", "", "555"), Customer("Lee", "lee@x", "777"),
   Customer("", "pat@x", "555")}

\* await supabase.from('customers').select('*').eq(column, value).limit(1)
\* when it succeeds: the rows among which data[0] is
SelectEq(rows, column, value) == {c \in rows : c[column] = value}

\* what a step of the customers route leaves alone
CustomerFrame ==
  /\ UNCHANGED handlerButCustomers
  /\ UNCHANGED <<flatVars, retryVars, extractVars>>
  /\ UNCHANGED <<accessCodes, accessVars, webhookVars, invoiceVars>>

\* if (!name || name.trim().length === 0) return res.status(400)...
CustomerValidate(p) ==
  /\ cuPc[p] = "received"
  /\ cuPc' = [cuPc EXCEPT ![p] = IF cuBody[p].name = "" THEN "rejected" ELSE "validated"]
  /\ UNCHANGED <<cuBody, cuExisting, customers>>
  /\ CustomerFrame

\* if (email) select by email; if (data && data.length > 0) existing = data[0]
CustomerLookupEmail(p) ==
  /\ cuPc[p] = "validated"
  /\ LET found == SelectEq(customers, "email", cuBody[p].email)
     IN  IF cuBody[p].email # "" /\ found # {}
         THEN \E c \in found : cuExisting' = [cuExisting EXCEPT ![p] = c]
         ELSE cuExisting' = cuExisting
  /\ cuPc' = [cuPc EXCEPT ![p] = "emailChecked"]
  /\ UNCHANGED <<cuBody, customers>>
  /\ CustomerFrame

\* if (!existing && phone) select by phone
CustomerLookupPhone(p) ==
  /\ cuPc[p] = "emailChecked"
  /\ LET found == SelectEq(customers, "phone", cuBody[p].phone)
     IN  IF cuExisting[p] = NoCustomer /\ cuBody[p].phone # "" /\ found # {}
         THEN \E c \in found : cuExisting' = [cuExisting EXCEPT ![p] = c]
         ELSE cuExisting' = cuExisting
  /\ cuPc' = [cuPc EXCEPT ![p] = "phoneChecked"]
  /\ UNCHANGED <<cuBody, customers>>
  /\ CustomerFrame

\* if (existing) return res.json({ ok: true, customer: existing, ... });
\* else insert, if (error) throw error, res.json({ ok: true, customer: data })
CustomerInsert(p) ==
  /\ cuPc[p] = "phoneChecked"
  /\ IF cuExisting[p] # NoCustomer
     THEN /\ cuPc' = [cuPc EXCEPT ![p] = "answered"]
          /\ UNCHANGED <<customers, cuExisting>>
     ELSE \/ /\ cuExisting' = [cuExisting EXCEPT ![p] = CustomerRow(NewId(customers), cuBody[p])]
             /\ customers' = customers \cup {cuExisting'[p]}
             /\ cuPc' = [cuPc EXCEPT ![p] = "answered"]
          \/ /\ cuPc' = [cuPc EXCEPT ![p] = "failed"]
             /\ UNCHANGED <<customers, cuExisting>>
  /\ UNCHANGED cuBody
  /\ CustomerFrame

(***************************************************************************)
(* The access_codes table and POST /api/validate-access.                   *)
(***************************************************************************)
\* a row of access_codes; expired stands for the outcome of
\* data.expires_at && new Date(data.expires_at) < new Date()
AccessCode(id, code, tier, active, expired, max, uses, customer, subscription) ==
  [id |-> id, code |-> code, tier |-> tier, is_active |-> active,
   expired |-> expired, max_uses |-> max, current_uses |-> uses,
   stripe_customer_id |-> customer, stripe_subscription_id |-> subscription]

\* no row: data is null
NoCode == AccessCode(0, <<>>, "", FALSE, FALSE, 0, 0, "", "")

Free == <<"F","R","E","E">>

\* the code stored unused with max_uses = max
StoredCode(active, expired, max) ==
  AccessCode(1, Free, "pro", active, expired, max, 0, "", "")

\* accessCode of the body as callers write it: the stored code in small
\* letters or with a blank, nothing, a blank, another code
CodeBodies ==
  {Free, toLowerCase(Free), <<" ">> \o Free, <<>>, <<" ">>, <<"N","O">>}

\* accessCode.trim().toUpperCase()
NormalizedCode(accessCode) == toUpperCase(trim(accessCode))

\* .update(fields).eq('id', id): the table with the row of that id rewritten
UpdateById(rows, id, uses) ==
  {IF r.id = id THEN [r EXCEPT !.current_uses = uses] ELSE r : r \in rows}

\* what a step of the validate-access route leaves alone
AccessFrame ==
  /\ UNCHANGED handlerVars
  /\ UNCHANGED <<flatVars, retryVars, extractVars>>
  /\ UNCHANGED <<customerVars, webhookVars, invoiceVars>>

\* mutation: the code is refused only when it was used more than max_uses times
UsesLeft_offByOne(data) == ~(data.max_uses # 0 /\ data.current_uses > data.max_uses)

\* if (data.max_uses && data.current_uses >= data.max_uses) return valid: false
UsesLeft(data) == ~(data.max_uses # 0 /\ data.current_uses >= data.max_uses)

\* if (!accessCode || accessCode.trim().length === 0) return valid: false
AccessCheck(p) ==
  /\ acPc[p] = "received"
  /\ acPc' = [acPc EXCEPT ![p] = IF trim(acBody[p]) = <<>> THEN "invalid" ELSE "checked"]
  /\ UNCHANGED <<accessCodes, acData, acBody>>
  /\ AccessFrame

\* select('*').eq('code', code).eq('is_active', true).single(), then the
\* tests on error, on expires_at and on max_uses, which answer valid: false
AccessSelect(p) ==
  /\ acPc[p] = "checked"
  /\ \/ \E r \in accessCodes :
          /\ r.code = NormalizedCode(acBody[p]) /\ r.is_active
          /\ acData' = [acData EXCEPT ![p] = r]
          /\ acPc' = [acPc EXCEPT ![p] =
                        IF r.expired \/ ~UsesLeft(r) THEN "invalid" ELSE "updating"]
     \/ /\ acData' = acData
        /\ acPc' = [acPc EXCEPT ![p] = "invalid"]
  /\ UNCHANGED <<accessCodes, acBody>>
  /\ AccessFrame

\* update({ current_uses: (data.current_uses || 0) + 1 }).eq('id', data.id),
\* then res.json({ valid: true, ... })
AccessUpdate(p) ==
  /\ acPc[p] = "updating"
  /\ accessCodes' = UpdateById(accessCodes, acData[p].id, acData[p].current_uses + 1)
  /\ acPc' = [acPc EXCEPT ![p] = "valid"]
  /\ UNCHANGED <<acData, acBody>>
  /\ AccessFrame

(***************************************************************************)
(* POST /api/stripe-webhook.  part_002 registers the route twice on the    *)
(* same app, at line 12 and at line 595; Express runs the handlers of a    *)
(* path in the order of registration, and a handler that answers without   *)
(* calling next() ends the dispatch.                                       *)
(***************************************************************************)
Registrations == <<"line 12", "line 595">>

\* the registration whose handler serves the route
Serving == Registrations[1]

EventTypes ==
  {"checkout.session.completed", "customer.subscription.created",
   "customer.subscription.updated", "customer.subscription.deleted",
   "invoice.payment_failed", "charge.refunded"}

\* an event as Stripe delivers it; signed: constructEvent accepts it
Event(type, signed, customer, subscription, status) ==
  [type |-> type, signed |-> signed, customer |-> customer,
   subscription |-> subscription, status |-> status]

Events ==
  {Event(t, s, "cus_1", "sub_1", "active") : t \in EventTypes, s \in BOOLEAN}
  \cup {Event("customer.subscription.updated", TRUE, "cus_1", "sub_1", "past_due")}

\* the row handleCheckoutCompleted inserts; the code is generateAccessCode()
PaidCode(rows, session) ==
  AccessCode(NewId(rows), <<"N","E","W">>, "pro", TRUE, FALSE, 999, 0,
             session.customer, session.subscription)

\* handleCheckoutCompleted: the insert, or its error caught and logged
handleCheckoutCompleted(rows, session) ==
  {rows \cup {PaidCode(rows, session)}, rows}

\* handleSubscriptionCreated: is_active true where stripe_customer_id matches
handleSubscriptionCreated(rows, subscription) ==
  {{IF r.stripe_customer_id = subscription.customer
    THEN [r EXCEPT !.is_active = TRUE,
                   !.stripe_subscription_id = subscription.subscription]
    ELSE r : r \in rows}, rows}

\* handleSubscriptionUpdated: is_active follows the status
handleSubscriptionUpdated(rows, subscription) ==
  {{IF r.stripe_subscription_id = subscription.subscription
    THEN [r EXCEPT !.is_active = (subscription.status \in {"active", "trialing"})]
    ELSE r : r \in rows}, rows}

\* handleSubscriptionDeleted: is_active false where the subscription matches
handleSubscriptionDeleted(rows, subscription) ==
  {{IF r.stripe_subscription_id = subscription.subscription
    THEN [r EXCEPT !.is_active = FALSE]
    ELSE r : r \in rows}, rows}

\* the switch of the handler registered at line 595: the tables it may leave
SwitchLine595(rows, event) ==
  CASE event.type = "checkout.session.completed" -> handleCheckoutCompleted(rows, event)
    [] event.type = "customer.subscription.created" -> handleSubscriptionCreated(rows, event)
    [] event.type = "customer.subscription.updated" -> handleSubscriptionUpdated(rows, event)
    [] event.type = "customer.subscription.deleted" -> handleSubscriptionDeleted(rows, event)
    [] OTHER -> {rows}

\* the switch of the handler registered at line 12: console.log only
SwitchLine12(rows, event) == {rows}

\* the switch of the handler a registration names
Switch(registration, rows, event) ==
  IF registration = "line 12" THEN SwitchLine12(rows, event)
  ELSE SwitchLine595(rows, event)

\* what a step of the webhook route leaves alone
WebhookFrame ==
  /\ UNCHANGED handlerVars
  /\ UNCHANGED <<flatVars, retryVars, extractVars>>
  /\ UNCHANGED <<customerVars, accessVars, invoiceVars>>

\* stripe.webhooks.constructEvent: it throws on a bad signature and the
\* handler answers 400
WebhookVerify(p) ==
  /\ whPc[p] = "received"
  /\ whPc' = [whPc EXCEPT ![p] = IF whEvent[p].signed THEN "verified" ELSE "rejected"]
  /\ UNCHANGED <<whEvent, accessCodes>>
  /\ WebhookFrame

\* the switch on event.type of the serving handler, then
\* res.json({ received: true })
WebhookHandle(p) ==
  /\ whPc[p] = "verified"
  /\ accessCodes' \in Switch(Serving, accessCodes, whEvent[p])
  /\ whPc' = [whPc EXCEPT ![p] = "acknowledged"]
  /\ UNCHANGED whEvent
  /\ WebhookFrame

(***************************************************************************)
(* POST /api/create-invoice.                                               *)
(***************************************************************************)
EstimateIds == {1, 2}

\* estimateId of the body: an estimate, an id no estimate has, or none (0)
InvoiceBodies == EstimateIds \cup {9, 0}

EstimateRow(id, status) == [id |-> id, status |-> status]

InvoiceRow(id, estimateId) == [id |-> id, estimate_id |-> estimateId, status |-> "draft"]

\* what a step of the create-invoice route leaves alone
InvoiceFrame ==
  /\ UNCHANGED handlerVars
  /\ UNCHANGED <<flatVars, retryVars, extractVars>>
  /\ UNCHANGED <<customerVars, accessCodes, accessVars, webhookVars>>

\* if (!estimateId) 400; select the estimate; if (estimateError) 404
InvoiceSelect(p) ==
  /\ ivPc[p] = "received"
  /\ IF ivBody[p] = 0
     THEN ivPc' = [ivPc EXCEPT ![p] = "answered400"]
     ELSE \/ /\ \E e \in estimates : e.id = ivBody[p]
             /\ ivPc' = [ivPc EXCEPT ![p] = "found"]
          \/ ivPc' = [ivPc EXCEPT ![p] = "answered404"]
  /\ UNCHANGED <<estimates, invoices, ivBody>>
  /\ InvoiceFrame

\* insert into invoices; if (error) 400
InvoiceInsert(p) ==
  /\ ivPc[p] = "found"
  /\ \/ /\ invoices' = invoices \cup {InvoiceRow(NewId(invoices), ivBody[p])}
        /\ ivPc' = [ivPc EXCEPT ![p] = "inserted"]
     \/ /\ invoices' = invoices
        /\ ivPc' = [ivPc EXCEPT ![p] = "answered400"]
  /\ UNCHANGED <<estimates, ivBody>>
  /\ InvoiceFrame

\* .update({ status: 'invoiced' }).eq('id', estimateId): the rows after it
MarkInvoiced(rows, estimateId) ==
  {IF e.id = estimateId THEN [e EXCEPT !.status = "invoiced"] ELSE e : e \in rows}

\* await the update, whose result is not read, then res.json({ ok: true, invoice })
InvoiceUpdate(p) ==
  /\ ivPc[p] = "inserted"
  /\ \/ estimates' = MarkInvoiced(estimates, ivBody[p])
     \/ estimates' = estimates
  /\ ivPc' = [ivPc EXCEPT ![p] = "answered200"]
  /\ UNCHANGED <<invoices, ivBody>>
  /\ InvoiceFrame
(***************************************************************************)
(* fetchWithRetry(url, options, retries, backoff).                         *)
(***************************************************************************)
\* what await fetch(url, options) gives: a response with a status, or a
\* thrown error
Response(status) == [k |-> "response", status |-> status]

NetworkError == [k |-> "error", status |-> 0]

\* the AbortError fetch rejects with once options.signal is aborted
AbortError == [k |-> "abort", status |-> 0]

\* the fetch threw: the catch block of the loop body runs
Thrown(o) == o.k \in {"error", "abort"}

\* undefined, the value of a call whose loop body never runs
NoResponse == [k |-> "none", status |-> 0]

Statuses == {200, 204, 400, 404, 429, 500, 503}

Outcomes == {Response(s) : s \in Statuses} \cup {NetworkError}

\* response.ok
ok(response) == response.status >= 200 /\ response.status <= 299

\* the values of retries and backoff the callers pass, and retries = 0
RetriesValues == 0..MaxRetries

BackoffValues == {1000, 2000}

\* mutation: a 4xx response is retried like a 5xx one
Decide_retry4xx(o, i, retries) ==
  IF Thrown(o)
  THEN IF i = retries - 1 THEN "throw" ELSE "retry"
  ELSE IF ok(o) \/ i = retries - 1 THEN "return"
  ELSE "retry"

\* one pass of the loop body, from the outcome of the fetch to the return,
\* the throw or the wait before the next pass
Decide(o, i, retries) ==
  IF Thrown(o)
  THEN IF i = retries - 1 THEN "throw" ELSE "retry"
  ELSE IF o.status >= 400 /\ o.status < 500 /\ o.status # 429 THEN "return"
  ELSE IF ok(o) \/ i = retries - 1 THEN "return"
  ELSE "retry"

\* for (let i = 0; i < retries; ...): the first test of the loop
CallFetchWithRetry ==
  /\ fwrPc = "call"
  /\ fwrI' = 0
  /\ IF 0 < fwrRetries
     THEN /\ fwrPc' = "fetching"
          /\ fwrResult' = fwrResult
     ELSE /\ fwrPc' = "returned"
          /\ fwrResult' = NoResponse
  /\ UNCHANGED <<fwrRetries, fwrBackoff, fwrBackoffArg, fwrWaits, fwrAborted, fwrLog>>
  /\ UNCHANGED <<routeVars, handlerVars, flatVars, extractVars>>

\* what a fetch may give: an AbortError alone once the signal is aborted
FetchOutcomes(aborted) == IF aborted THEN {AbortError} ELSE Outcomes

\* await fetch(url, options) settles and the loop body runs to its end
Attempt ==
  /\ fwrPc = "fetching"
  /\ \E o \in FetchOutcomes(fwrAborted) :
       /\ fwrLog' = Append(fwrLog, o)
       /\ LET d == Decide(o, fwrI, fwrRetries)
          IN  CASE d = "return" -> /\ fwrPc' = "returned"
                                    /\ fwrResult' = o
                [] d = "throw"  -> /\ fwrPc' = "thrown"
                                    /\ fwrResult' = fwrResult
                [] OTHER        -> /\ fwrPc' = "waiting"
                                    /\ fwrResult' = fwrResult
  /\ UNCHANGED <<fwrI, fwrRetries, fwrBackoff, fwrBackoffArg, fwrWaits, fwrAborted>>
  /\ UNCHANGED <<routeVars, handlerVars, flatVars, extractVars>>

\* mutation: the wait is not doubled
NextBackoff_same(backoff) == backoff

\* backoff *= 2
NextBackoff(backoff) == backoff * 2

\* the timer of setTimeout(resolve, backoff) fires; backoff *= 2; i++; the
\* test of the loop
Backoff ==
  /\ fwrPc = "waiting"
  /\ fwrWaits' = Append(fwrWaits, fwrBackoff)
  /\ fwrBackoff' = NextBackoff(fwrBackoff)
  /\ fwrI' = fwrI + 1
  /\ IF fwrI' < fwrRetries
     THEN /\ fwrPc' = "fetching"
          /\ fwrResult' = fwrResult
     ELSE /\ fwrPc' = "returned"
          /\ fwrResult' = NoResponse
  /\ UNCHANGED <<fwrRetries, fwrBackoffArg, fwrAborted, fwrLog>>
  /\ UNCHANGED <<routeVars, handlerVars, flatVars, extractVars>>


\* the caller's timer fires while the call runs: setTimeout(() =>
\* controller.abort(), 60000); the fetch in flight, if any, rejects with an
\* AbortError, and so does every later fetch on the same signal
TimerFires ==
  /\ fwrPc \in {"fetching", "waiting"}
  /\ ~fwrAborted
  /\ fwrAborted' = TRUE
  /\ UNCHANGED <<fwrPc, fwrI, fwrRetries, fwrBackoff, fwrBackoffArg, fwrWaits,
                 fwrLog, fwrResult>>
  /\ UNCHANGED <<routeVars, handlerVars, flatVars, extractVars>>
(***************************************************************************)
(* The extraction of the estimate from the content of the reply.           *)
(***************************************************************************)
Least(S) == CHOOSE x \in S : \A y \in S : x <= y

Greatest(S) == CHOOSE x \in S : \A y \in S : y <= x

\* str.startsWith(pat)
startsWith(str, pat) ==
  /\ Len(pat) <= Len(str)
  /\ \A j \in 1..Len(pat) : str[j] = pat[j]

\* str.replace(/pat\n?/g, ""): every occurrence of pat, with the line
\* feed that follows it if there is one, is removed, from left to right
RECURSIVE replaceAll(_, _)
replaceAll(str, pat) ==
  IF str = <<>> THEN <<>>
  ELSE IF startsWith(str, pat)
  THEN LET rest == SubSeq(str, Len(pat) + 1, Len(str))
       IN  IF rest # <<>> /\ Head(rest) = "\n"
           THEN replaceAll(Tail(rest), pat)
           ELSE replaceAll(rest, pat)
  ELSE <<Head(str)>> \o replaceAll(Tail(str), pat)

\* the character U+0060, which a TLA+ string cannot hold
GraveAccent == "grave"

FenceJson == <<GraveAccent,GraveAccent,GraveAccent,"j","s","o","n">>

Fence == <<GraveAccent,GraveAccent,GraveAccent>>

\* text.trim(), then .replace(/FENCEjson\n?/g, '') and .replace(/FENCE\n?/g, '')
\* where FENCE is three grave accents, then .trim()
cleanText(text) == trim(replaceAll(replaceAll(trim(text), FenceJson), Fence))

\* cleanText.match(/\{[\s\S]*\}/): from the first '{' to the last '}' after
\* it ([\s\S]* is greedy); jsonMatch ? jsonMatch[0] : cleanText
jsonText(clean) ==
  LET opens == {i \in 1..Len(clean) : clean[i] = "{"}
  IN  IF opens = {} THEN clean
      ELSE LET first == Least(opens)
               closes == {i \in first..Len(clean) : clean[i] = "}"}
           IN  IF closes = {} THEN clean
               ELSE SubSeq(clean, first, Greatest(closes))

\* the white space of JSON
JsonWhiteSpace == {" ", "\t", "\n", "\r"}

\* the first position from i on that holds no white space
SkipWs(s, i) ==
  LET rest == {j \in i..Len(s) : s[j] \notin JsonWhiteSpace}
  IN  IF rest = {} THEN Len(s) + 1 ELSE Least(rest)

\* The JSON grammar of the modelled replies: objects whose members have
\* string keys and whose values are objects, strings and unsigned integers.
\* Each parser takes the position where its phrase starts and gives the
\* position after it, 0 when there is no such phrase there.
ParseString(s, i) ==
  IF i <= Len(s) /\ s[i] = "\""
  THEN LET closes == {j \in (i + 1)..Len(s) : s[j] = "\""}
       IN  IF closes = {} THEN 0 ELSE Least(closes) + 1
  ELSE 0

ParseNumber(s, i) ==
  IF i <= Len(s) /\ IsDigit(s[i])
  THEN LET stops == {j \in i..Len(s) : ~IsDigit(s[j])}
       IN  IF stops = {} THEN Len(s) + 1 ELSE Least(stops)
  ELSE 0

RECURSIVE ParseValue(_, _), ParseMembers(_, _)
ParseValue(s, i) ==
  IF i > Len(s) THEN 0
  ELSE IF s[i] = "{"
  THEN LET j == SkipWs(s, i + 1)
       IN  IF j <= Len(s) /\ s[j] = "}" THEN j + 1 ELSE ParseMembers(s, j)
  ELSE IF s[i] = "\"" THEN ParseString(s, i)
  ELSE ParseNumber(s, i)

\* the members of an object from position i on, up to its closing brace
ParseMembers(s, i) ==
  LET key == ParseString(s, i)
      colon == SkipWs(s, key)
      value == ParseValue(s, SkipWs(s, colon + 1))
      next == SkipWs(s, value)
  IN  IF key = 0 \/ colon > Len(s) THEN 0
      ELSE IF s[colon] # ":" \/ value = 0 \/ next > Len(s) THEN 0
      ELSE IF s[next] = "}" THEN next + 1
      ELSE IF s[next] = "," THEN ParseMembers(s, SkipWs(s, next + 1))
      ELSE 0

\* the parse failed: JSON.parse threw a SyntaxError
NoParse == [ok |-> FALSE, value |-> <<>>]

\* a parsed value, written without white space
Parsed(s) ==
  [ok |-> TRUE, value |-> SelectSeq(s, LAMBDA c : c \notin JsonWhiteSpace)]

\* JSON.parse(s): the value when s is one JSON value between white space
JSONparse(s) ==
  LET start == SkipWs(s, 1)
      end == ParseValue(s, start)
  IN  IF end # 0 /\ SkipWs(s, end) = Len(s) + 1
      THEN Parsed(SubSeq(s, start, end - 1))
      ELSE NoParse

\* lines 918-927: the estimate parsed from the content of the reply, or
\* the failure answered with status 500
extractEstimate(text) == JSONparse(jsonText(cleanText(text)))

\* the replies tried: a JSON object, alone, between markdown fences, after
\* prose and before prose, a brace or a second object
ReplyObjects == {<<"{","\"","a","\"",":","1","}">>,
   <<"{","\"","a","\"",":","{","\"","b","\"",":","2","}","}">>,
   <<"{"," ","\"","a","\"",":"," ","1",",","\n","\"","b","\"",":"," ","\"","x","\""," ","}">>}

ReplyPrefixes == {<<>>,
   <<GraveAccent,GraveAccent,GraveAccent,"j","s","o","n","\n">>,
   <<GraveAccent,GraveAccent,GraveAccent,"\n">>,
   <<"H","e","r","e"," ","i","t"," ","i","s",":","\n">>,
   <<" ","\n">>}

ReplySuffixes == {<<>>,
   <<"\n",GraveAccent,GraveAccent,GraveAccent>>,
   <<"\n","D","o","n","e",".">>,
   <<" ","}">>,
   <<" ","{">>,
   <<"\n","{","\"","c","\"",":","3","}">>,
   <<"\n","U","s","e"," ","{","b","r","a","c","e","s","}",".">>}

ReplyTexts ==
  {pre \o obj \o suf :
     pre \in ReplyPrefixes, obj \in ReplyObjects, suf \in ReplySuffixes}

\* one extraction
ExtractEstimate ==
  /\ exPc = "call"
  /\ exResult' = extractEstimate(exText)
  /\ exPc' = "done"
  /\ UNCHANGED exText
  /\ UNCHANGED <<routeVars, handlerVars, flatVars, retryVars>>

(***************************************************************************)
(* Calls of getFlatRate.                                                   *)
(***************************************************************************)
Tables == {"server.js", "part_002"}

TableOf(name) == IF name = "server.js" THEN FLAT_RATES ELSE FLAT_RATES_002

Keys(table) == {table[i].job : i \in 1..Len(table)}

Spaces(n) == [i \in 1..n |-> " "]

And == <<" ","a","n","d"," ">>

OilChangeAndTireRotation ==
  <<"o","i","l"," ","c","h","a","n","g","e"," ","a","n","d"," ",
    "t","i","r","e"," ","r","o","t","a","t","i","o","n">>

\* keys joined pairwise into descriptions of two jobs
JoinedKeys ==
  {<<"o","i","l"," ","c","h","a","n","g","e">>,
   <<"t","i","r","e"," ","r","o","t","a","t","i","o","n">>,
   <<"r","a","d","i","a","t","o","r"," ","h","o","s","e">>,
   <<"t","i","e"," ","r","o","d"," ","e","n","d">>,
   <<"s","t","r","u","t">>,
   <<"w","a","t","e","r"," ","p","u","m","p">>}

BrakeJobLower == toLowerCase(BrakeJob)

\* lower-case descriptions without blanks around them
Phrases ==
  Keys(FLAT_RATES) \cup Keys(FLAT_RATES_002)
  \cup {a \o And \o b : a \in JoinedKeys, b \in JoinedKeys}
  \cup {<<>>, <<"x","y","z">>, BrakeJobLower, OilChangeAndTireRotation}

\* a phrase as a caller may write it: in capitals, blanks around it
Spellings(w) ==
  {Spaces(p) \o c \o Spaces(q) :
      p \in 0..MaxPad, q \in 0..MaxPad, c \in {w, toUpperCase(w)}}

\* the descriptions getFlatRate is called on
FlatInputs == UNION {Spellings(w) : w \in Phrases} \cup {BrakeJob}

\* getFlatRate(description) is called and returns
CallGetFlatRate ==
  /\ frPc = "call"
  /\ frResult' = getFlatRateIn(TableOf(frTable), frInput)
  /\ frPc' = "done"
  /\ UNCHANGED <<frTable, frInput>>
  /\ UNCHANGED <<routeVars, handlerVars, retryVars, extractVars>>

(***************************************************************************)
(* Specifications.                                                         *)
(***************************************************************************)
CustomerRequests ==
  {Request(v, OilChange, Num(80000), c) : v \in Variants, c \in Customers}

\* a request and the customers table it finds
Arrivals ==
  {<<r, {}>> : r \in Requests}
  \cup {<<r, cs>> : r \in CustomerRequests, cs \in InitialCustomers}

HandlerIdle ==
  /\ pc = "idle"
  /\ req = Request("v3", OilChange, undefined, Customer("", "", ""))
  /\ raw = NoRaw
  /\ est = NoEst
  /\ totals = NoTotals
  /\ customers = {}
  /\ jobs = {}
  /\ customerRecord = NoCustomer
  /\ savedJob = NoJob
  /\ resp = NoResp

FlatIdle ==
  /\ frPc = "idle"
  /\ frTable = "server.js"
  /\ frInput = <<>>
  /\ frResult = NoMatch

RetryIdle ==
  /\ fwrPc = "idle"
  /\ fwrI = 0
  /\ fwrRetries = 0
  /\ fwrBackoff = 0
  /\ fwrBackoffArg = 0
  /\ fwrWaits = <<>>
  /\ fwrAborted = FALSE
  /\ fwrLog = <<>>
  /\ fwrResult = NoResponse

ExtractIdle ==
  /\ exPc = "idle"
  /\ exText = <<>>
  /\ exResult = NoParse

CustomerRouteIdle ==
  /\ cuPc = [p \in Requesters |-> "idle"]
  /\ cuBody = [p \in Requesters |-> Customer("", "", "")]
  /\ cuExisting = [p \in Requesters |-> NoCustomer]

AccessRouteIdle ==
  /\ acPc = [p \in Requesters |-> "idle"]
  /\ acBody = [p \in Requesters |-> <<>>]
  /\ acData = [p \in Requesters |-> NoCode]

WebhookRouteIdle ==
  /\ whPc = [p \in Requesters |-> "idle"]
  /\ whEvent = [p \in Requesters |-> Event("", FALSE, "", "", "")]

InvoiceRouteIdle ==
  /\ estimates = {}
  /\ invoices = {}
  /\ ivPc = [p \in Requesters |-> "idle"]
  /\ ivBody = [p \in Requesters |-> 0]

RoutesIdle ==
  /\ CustomerRouteIdle
  /\ accessCodes = {}
  /\ AccessRouteIdle
  /\ WebhookRouteIdle
  /\ InvoiceRouteIdle

\* one request to POST /api/generate-estimate arrives
Init ==
  /\ pc = "received"
  /\ \E a \in Arrivals :
       /\ req = a[1]
       /\ customers = a[2]
  /\ raw = NoRaw
  /\ est = NoEst
  /\ totals = NoTotals
  /\ jobs = {}
  /\ customerRecord = NoCustomer
  /\ savedJob = NoJob
  /\ resp = NoResp
  /\ FlatIdle
  /\ RetryIdle
  /\ ExtractIdle
  /\ RoutesIdle

Next ==
  \/ Validate
  \/ Fetch
  \/ AIFail
  \/ AIReply
  \/ BodyFail
  \/ Normalize
  \/ Price
  \/ PriceAndRespondTotals
  \/ LookupEmail
  \/ LookupPhone
  \/ InsertCustomer
  \/ InsertJob
  \/ Respond

Spec == Init /\ [][Next]_vars

\* The steps the handler takes by itself always come: validation,
\* normalization, pricing, sending the response.
OwnSteps ==
  Validate \/ Normalize \/ Price \/ PriceAndRespondTotals \/ Respond

\* The fetch of the first and totals handlers is raced by a 60 s timer
\* (setTimeout(() => controller.abort(), 60000)): it returns or it throws.
\* Nothing bounds the fetch of the v3 handler, the reading of the body, the
\* selects and the inserts: no fairness is stated for them.
TimedFetch == req.variant # "v3" /\ (Fetch \/ AIFail)

Fairness == WF_vars(OwnSteps) /\ WF_vars(TimedFetch)

SpecLive == Init /\ [][Next]_vars /\ Fairness

\* one call of getFlatRate
InitFlat ==
  /\ HandlerIdle
  /\ frPc = "call"
  /\ frTable \in Tables
  /\ frInput \in FlatInputs
  /\ frResult = NoMatch
  /\ RetryIdle
  /\ ExtractIdle
  /\ RoutesIdle

NextFlat == CallGetFlatRate

SpecFlat == InitFlat /\ [][NextFlat]_vars


\* one call of fetchWithRetry
InitRetry ==
  /\ HandlerIdle
  /\ FlatIdle
  /\ ExtractIdle
  /\ RoutesIdle
  /\ fwrPc = "call"
  /\ fwrI = 0
  /\ fwrRetries \in RetriesValues
  /\ fwrBackoff \in BackoffValues
  /\ fwrBackoffArg = fwrBackoff
  /\ fwrWaits = <<>>
  /\ fwrAborted = FALSE
  /\ fwrLog = <<>>
  /\ fwrResult = NoResponse
  /\ RoutesIdle

NextRetry == CallFetchWithRetry \/ Attempt \/ Backoff

SpecRetry == InitRetry /\ [][NextRetry]_vars

\* every fetch settles and every setTimeout fires
SpecRetryLive == InitRetry /\ [][NextRetry]_vars /\ WF_vars(NextRetry)

\* one call of fetchWithRetry whose options carry the signal of a
\* controller that the caller's timer aborts
NextTimedRetry == CallFetchWithRetry \/ Attempt \/ Backoff \/ TimerFires

SpecTimedRetry == InitRetry /\ [][NextTimedRetry]_vars

\* one extraction of the estimate from a reply
InitExtract ==
  /\ HandlerIdle
  /\ FlatIdle
  /\ RetryIdle
  /\ exPc = "call"
  /\ exText \in ReplyTexts
  /\ exResult = NoParse
  /\ RoutesIdle

NextExtract == ExtractEstimate

SpecExtract == InitExtract /\ [][NextExtract]_vars


\* requests to POST /api/customers arrive together, the table is empty
InitCustomers ==
  /\ HandlerIdle
  /\ FlatIdle
  /\ RetryIdle
  /\ ExtractIdle
  /\ cuPc = [p \in Requesters |-> "received"]
  /\ cuBody \in [Requesters -> CustomerBodies]
  /\ cuExisting = [p \in Requesters |-> NoCustomer]
  /\ accessCodes = {}
  /\ AccessRouteIdle
  /\ WebhookRouteIdle
  /\ InvoiceRouteIdle

NextCustomers ==
  \/ \E p \in Requesters : CustomerValidate(p)
  \/ \E p \in Requesters : CustomerLookupEmail(p)
  \/ \E p \in Requesters : CustomerLookupPhone(p)
  \/ \E p \in Requesters : CustomerInsert(p)

SpecCustomers == InitCustomers /\ [][NextCustomers]_vars

UtilitiesIdle == HandlerIdle /\ FlatIdle /\ RetryIdle /\ ExtractIdle

\* requests to POST /api/validate-access arrive together; the code FREE
\* is stored unused with max_uses 1..MaxUses
InitAccess ==
  /\ UtilitiesIdle
  /\ CustomerRouteIdle
  /\ WebhookRouteIdle
  /\ InvoiceRouteIdle
  /\ \E active \in BOOLEAN, expired \in BOOLEAN, max \in 1..MaxUses :
       accessCodes = {StoredCode(active, expired, max)}
  /\ acPc = [p \in Requesters |-> "received"]
  /\ acBody \in [Requesters -> CodeBodies]
  /\ acData = [p \in Requesters |-> NoCode]

NextAccess ==
  \/ \E p \in Requesters : AccessCheck(p)
  \/ \E p \in Requesters : AccessSelect(p)
  \/ \E p \in Requesters : AccessUpdate(p)

SpecAccess == InitAccess /\ [][NextAccess]_vars

\* the code a checkout of cus_1 has paid for, with subscription sub_1
SubscribedCode == AccessCode(1, <<"P","A","I","D">>, "pro", TRUE, FALSE, 999, 0, "cus_1", "sub_1")

\* events are delivered to POST /api/stripe-webhook
InitWebhook ==
  /\ UtilitiesIdle
  /\ CustomerRouteIdle
  /\ AccessRouteIdle
  /\ InvoiceRouteIdle
  /\ accessCodes \in {{}, {SubscribedCode}}
  /\ whPc = [p \in Requesters |-> "received"]
  /\ whEvent \in [Requesters -> Events]

NextWebhook ==
  \/ \E p \in Requesters : WebhookVerify(p)
  \/ \E p \in Requesters : WebhookHandle(p)

SpecWebhook == InitWebhook /\ [][NextWebhook]_vars

\* requests to POST /api/create-invoice arrive; the estimates are drafts
InitInvoice ==
  /\ UtilitiesIdle
  /\ CustomerRouteIdle
  /\ accessCodes = {}
  /\ AccessRouteIdle
  /\ WebhookRouteIdle
  /\ estimates = {EstimateRow(id, "draft") : id \in EstimateIds}
  /\ invoices = {}
  /\ ivPc = [p \in Requesters |-> "received"]
  /\ ivBody \in [Requesters -> InvoiceBodies]

NextInvoice ==
  \/ \E p \in Requesters : InvoiceSelect(p)
  \/ \E p \in Requesters : InvoiceInsert(p)
  \/ \E p \in Requesters : InvoiceUpdate(p)

SpecInvoice == InitInvoice /\ [][NextInvoice]_vars
(***************************************************************************)
(* Properties.                                                             *)
(***************************************************************************)
\* key occurs in str: some window of str equals key
IsSubstring(key, str) ==
  \E i \in 0..(Len(str) - Len(key)) : SubSeq(str, i + 1, i + Len(key)) = key

\* the indices of the entries of table whose key occurs in phrase
Hits(table, phrase) ==
  {i \in 1..Len(table) : IsSubstring(table[i].job, phrase)}

Min(S) == CHOOSE x \in S : \A y \in S : x <= y

\* what the matcher is to return for a phrase: the entry of the first
\* declared key that occurs in it, null when none does
FirstDeclared ==
  [t \in Tables |->
     [w \in Phrases |->
        LET hits == Hits(TableOf(t), w)
        IN  IF hits = {} THEN NoMatch ELSE TableOf(t)[Min(hits)]]]

SpellingsOf == [w \in Phrases |-> Spellings(w)]

\* C1: getFlatRate lower-cases and trims the description and returns the
\* entry of the first key, in declaration order, that is a substring of it
\* (not the longest one), and null when no key is a substring, the empty
\* string included; for 'oil change and tire rotation' against the table
\* holding both 'oil change' and 'oil change and tire rotation' it returns
\* 'oil change', the one declared first.
C1_FirstDeclaredMatch ==
  frPc = "done" =>
    /\ \A w \in Phrases :
         frInput \in SpellingsOf[w] => frResult = FirstDeclared[frTable][w]
    /\ (frInput = OilChangeAndTireRotation /\ frTable = "part_002")
         => frResult = Fixed(OilChange, 500)
    /\ frInput = <<>> => frResult = NoMatch

\* C1 witness: a description holding two keys, the later declared one the
\* longer, has been matched to the earlier one
C1_Witness ==
  /\ frPc = "done"
  /\ frTable = "part_002"
  /\ frInput = <<" ">> \o toUpperCase(OilChangeAndTireRotation)
  /\ frResult.job = OilChange
  /\ \E i \in 2..Len(FLAT_RATES_002) :
       FLAT_RATES_002[i].job = OilChangeAndTireRotation

BrakePadsAndRotorsFront ==
  <<"b","r","a","k","e"," ","p","a","d","s"," ","a","n","d"," ",
    "r","o","t","o","r","s"," ","f","r","o","n","t">>

FrontBrakePads ==
  <<"f","r","o","n","t"," ","b","r","a","k","e"," ","p","a","d","s">>

\* C2 as stated: for 'Replace front brake pads and rotors' the matcher
\* returns the entry 'brake pads and rotors front' with hours {2.0, 2.5}.
C2_Original ==
  (frPc = "done" /\ frInput = BrakeJob)
    => frResult = Range(BrakePadsAndRotorsFront, 2000, 2500)

\* C2 amended: for 'Replace front brake pads and rotors' the matcher
\* returns null against FLAT_RATES of server.js (no key is a substring of
\* the description) and the entry 'front brake pads' with hours {1.5, 2.0}
\* against the extended table, where that key is declared before
\* 'front brake pads and rotors'.
C2_BrakeJobMatch ==
  (frPc = "done" /\ frInput = BrakeJob) =>
    /\ frTable = "server.js" => frResult = NoMatch
    /\ frTable = "part_002" => frResult = Range(FrontBrakePads, 1500, 2000)

\* C2 witness: the brake job has been matched against the extended table
C2_Witness ==
  /\ frPc = "done"
  /\ frInput = BrakeJob
  /\ frTable = "part_002"
  /\ frResult.kind = "range"

\* the handler has normalized the reply
Normalized == req.variant \in {"first", "v3"} /\ est # NoEst

\* the handler has computed the totals
Priced == totals # NoTotals

\* the number the text-generation output gives for laborHours, read the way
\* parseFloat reads it, 0 when the field is absent
ParsedHours(v) ==
  CASE v = undefined -> Num(0)
    [] v = Str(<<"2",".","5">>) -> Num(2500)
    [] v = Str(<<"a","b","c">>) -> NaN
    [] OTHER -> v

\* C3: in the v3 handler the normalized laborHours is decided by the
\* flat-rate match of the description: a fixed match gives exactly its
\* hours whatever the reply held ('oil change' at caller rate 80 gives
\* laborHours 0.5 and laborCost 40.00); with a range or no match laborHours
\* is the parsed value of the reply.
C3_FlatRateDecidesHours ==
  (req.variant = "v3" /\ Normalized) =>
    LET m == FirstDeclared["server.js"][toLowerCase(req.description)]
    IN  /\ m.kind = "fixed" => est.laborHours = Num(m.hours)
        /\ m.kind # "fixed" => est.laborHours = ParsedHours(raw.laborHours)
        /\ (req.description = OilChange /\ req.laborRate = Num(80000)) =>
             /\ est.laborHours = Num(500)
             /\ Priced => totals.laborCost = Num(40000)

\* C3 witness: an oil change at caller rate 80 whose reply said 2.5 hours
\* has been priced with 0.5 hours
C3_Witness ==
  /\ req.variant = "v3"
  /\ pc = "priced"
  /\ req.description = OilChange
  /\ req.laborRate = Num(80000)
  /\ raw.laborHours = Str(<<"2",".","5">>)
  /\ est.laborHours = Num(500)
  /\ totals.laborCost = Num(40000)

\* the precedence of spec 4.2 rule 1
ThreeStepRate(caller, reply) ==
  IF caller.k = "num" /\ caller.n > 0 THEN caller
  ELSE IF reply.k = "num" /\ reply.n > 0 THEN reply
  ELSE Num(65000)

CallerSuppliesRate == req.laborRate.k = "num" /\ req.laborRate.n > 0

C5_RateEverywhere ==
  (req.variant = "v3" /\ CallerSuppliesRate) =>
    /\ Normalized => est.laborRate = req.laborRate
    /\ Priced => totals.laborCost = MulFixed2(est.laborHours, req.laborRate)
    /\ \A j \in jobs : j.estimated_labor_rate = req.laborRate
    /\ savedJob # NoJob => savedJob.estimated_labor_rate = req.laborRate
    /\ resp.ok =>
         /\ resp.estimate.laborRate = req.laborRate
         /\ resp.totals.laborCost = MulFixed2(resp.estimate.laborHours, req.laborRate)

C5_RateNeverChanges ==
  (req.variant = "v3" /\ Normalized) => est'.laborRate = est.laborRate

\* C5: when the caller supplies a labor rate, the laborRate of the returned
\* estimate, the labor rate of the persisted job and the rate laborCost is
\* computed with are that caller rate, whatever the reply proposed; once
\* set, the rate is changed by no later step of the request.
C5_CallerRateAuthoritative ==
  []C5_RateEverywhere /\ [][C5_RateNeverChanges]_vars

\* C5 witness: caller rate 80, reply rate 70: the job is saved and the
\* estimate returned with rate 80
C5_Witness ==
  /\ req.variant = "v3"
  /\ resp.ok
  /\ req.laborRate = Num(80000)
  /\ raw.laborRate = Num(70000)
  /\ resp.estimate.laborRate = Num(80000)
  /\ \E j \in jobs : j.estimated_labor_rate = Num(80000)

\* round(max(0, numeric(cost, default 0))) of spec 4.2 rule 3
ClampedCost(c) ==
  IF c.k = "num" /\ c.n > 0 THEN Num(1000 * ((c.n + 500) \div 1000)) ELSE Num(0)

RECURSIVE SumClamped(_)
SumClamped(items) ==
  IF items = <<>> THEN 0
  ELSE SumClamped(Tail(items)) + ClampedCost(Head(items).cost).n

\* C6 as stated: every normalized part cost is round(max(0, numeric(raw
\* cost, default 0))), a negative, missing or non-numeric cost becoming 0,
\* and partsCost is the sum of these zero-clamped whole-unit costs.
C6_ClampedPartCost ==
  (req.variant = "v3" /\ Normalized) =>
    /\ Len(est.parts) = Len(PartsItems(raw.parts))
    /\ \A i \in 1..Len(est.parts) :
         est.parts[i].cost = ClampedCost(raw.parts.items[i].cost)
    /\ Priced => totals.partsCost = Num(SumClamped(PartsItems(raw.parts)))

\* a finite number >= 0
FiniteNonNegative(v) == v.k = "num" /\ v.n >= 0

\* C7 as stated: after normalization laborHours, laborRate, every part cost
\* and shopSuppliesPercent are finite numbers >= 0, whatever the reply held.
C7_FiniteNonNegative ==
  (req.variant = "v3" /\ Normalized) =>
    /\ FiniteNonNegative(est.laborHours)
    /\ FiniteNonNegative(est.laborRate)
    /\ \A i \in 1..Len(est.parts) : FiniteNonNegative(est.parts[i].cost)
    /\ FiniteNonNegative(est.shopSuppliesPercent)

C8_ParsedProceeds ==
  (pc = "parsed" /\ req.variant = "v3") =>
    /\ pc' = "normalized"
    /\ raw.parts.v.k # "arr" => est'.parts = <<>>

\* C8 as stated: normalization raises no error for any parsed object: a
\* parts value that is no array, or a list holding null, is replaced by its
\* default, and the request proceeds to pricing, never to an error response.
C8_NormalizationNeverThrows == [][C8_ParsedProceeds]_vars

\* the handlers of C9 and C10: v3 and the one that computes the totals on
\* the parsed object
PercentHandlers == {"v3", "totals"}

\* the raw shopSuppliesPercent if the reply has one, else the default 7
RawOrDefaultPercent(r) ==
  IF r.shopSuppliesPercent \in {undefined, null} THEN Num(7000)
  ELSE r.shopSuppliesPercent

\* C9 as stated: the shopSuppliesPercent of the estimate is the raw value
\* whenever the reply has one, an explicit 0 included, which yields
\* shop-supplies cost 0; it is the default 7 only when the reply has none.
C9_RawPercentKept ==
  (req.variant \in PercentHandlers /\ Priced) =>
    /\ est.shopSuppliesPercent = RawOrDefaultPercent(raw)
    /\ (raw.shopSuppliesPercent = Num(0) /\ totals.partsCost.k = "num") =>
         totals.shopSupplies = Num(0)

\* round2(partsCost * percent / 100) on finite numbers
Round2Percent(partsCost, percent) ==
  Num(10 * ((partsCost.n * percent.n + 500000) \div 1000000))

\* C10 as stated: the shop-supplies cost is round2(partsCost *
\* shopSuppliesPercent / 100); labor cost never enters it, so an estimate
\* with no parts has shop-supplies cost 0.
C10_SuppliesFromPartsOnly ==
  LET percent == RawOrDefaultPercent(raw)
  IN  (/\ req.variant \in PercentHandlers
       /\ Priced
       /\ totals.partsCost.k = "num"
       /\ totals.partsCost.n >= 0
       /\ percent.k = "num"
       /\ percent.n >= 0) =>
        /\ totals.shopSupplies = Round2Percent(totals.partsCost, percent)
        /\ PartsItems(raw.parts) = <<>> => totals.shopSupplies = Num(0)

\* the handlers that price an estimate
PricingHandlers == {"first", "v3", "totals"}

\* round2(hours * rate) on finite numbers >= 0
Round2Product(hours, rate) ==
  Num(10 * ((hours.n * rate.n + 5000) \div 10000))

\* C11 as stated: for all non-negative laborHours and laborRate the
\* laborCost of the priced estimate is laborHours * laborRate rounded to
\* two decimal places.
C11_LaborCostRounded ==
  (/\ req.variant \in {"v3", "totals"}
   /\ Priced
   /\ FiniteNonNegative(est.laborHours)
   /\ FiniteNonNegative(est.laborRate)) =>
     totals.laborCost = Round2Product(est.laborHours, est.laborRate)

\* a finite number
Finite(v) == v.k = "num"

\* a finite number of at most two decimals
Rounded2(v) == v.k = "num" /\ v.n % 10 = 0

\* round2 of a finite number, halves away from zero
Round2(v) ==
  IF v.n >= 0 THEN Num(10 * ((v.n + 5) \div 10))
  ELSE Num(0 - 10 * (((0 - v.n) + 5) \div 10))

\* subtotal is the rounded sum of terms rounded one by one
SubtotalOfRoundedTerms(laborCost, partsCost, shopSupplies, subtotal) ==
  (Finite(laborCost) /\ Finite(partsCost) /\ Finite(shopSupplies)) =>
    /\ Rounded2(laborCost)
    /\ Rounded2(shopSupplies)
    /\ subtotal = Round2(Num(laborCost.n + partsCost.n + shopSupplies.n))

\* C12 as stated: in every priced estimate, returned or persisted, subtotal
\* is laborCost + partsCost + shopSuppliesCost rounded to two decimals,
\* laborCost and shopSuppliesCost having each been rounded to two decimals
\* before the sum is taken.
C12_SubtotalRoundedPerTerm ==
  /\ (req.variant \in PricingHandlers /\ Priced) =>
       SubtotalOfRoundedTerms(totals.laborCost, totals.partsCost,
                              totals.shopSupplies, totals.subtotal)
  /\ resp.ok =>
       SubtotalOfRoundedTerms(resp.totals.laborCost, resp.totals.partsCost,
                              resp.totals.shopSupplies, resp.totals.subtotal)
  /\ \A j \in jobs :
       SubtotalOfRoundedTerms(j.estimated_labor_cost, j.estimated_parts_cost,
                              j.estimated_shop_supplies_cost, j.estimated_subtotal)

\* round2(subtotal * 28 / 100) on a finite subtotal, halves away from zero
Round2Tax(subtotal) ==
  IF subtotal.n >= 0 THEN Num(10 * ((subtotal.n * 28 + 500) \div 1000))
  ELSE Num(0 - 10 * (((0 - subtotal.n) * 28 + 500) \div 1000))

\* C13: in the handler with the tax layer recommendedTaxSetaside is
\* round2(subtotal * 28 / 100) and netAfterTax is round2(subtotal -
\* recommendedTaxSetaside); the rate 28 is the same for every request.
C13_TaxLayer ==
  (req.variant = "v3" /\ Priced /\ Finite(totals.subtotal)) =>
    /\ totals.recommendedTaxSetaside = Round2Tax(totals.subtotal)
    /\ totals.netAfterTax =
         Round2(Num(totals.subtotal.n - totals.recommendedTaxSetaside.n))
    /\ resp.ok =>
         /\ resp.totals.recommendedTaxSetaside = Round2Tax(resp.totals.subtotal)
         /\ resp.totals.netAfterTax =
              Round2(Num(resp.totals.subtotal.n
                         - resp.totals.recommendedTaxSetaside.n))

\* C13 witness: 1.5 h at 65, parts of 50 and -5 and 7 percent of supplies
\* give subtotal 145.65: the set-aside 40.782 has been rounded to 40.78 and
\* the net is 104.87
C13_Witness ==
  /\ req.variant = "v3"
  /\ Priced
  /\ totals.subtotal = Num(145650)
  /\ totals.recommendedTaxSetaside = Num(40780)
  /\ totals.netAfterTax = Num(104870)

\* a normalized estimate, taken as the object parsed from a reply
AsRaw(e) ==
  RawEstimate(e.laborHours, e.laborRate, e.shopSuppliesPercent,
              PartsArray([i \in 1..Len(e.parts) |->
                            Part(e.parts[i].name, e.parts[i].cost)]),
              e.tips)

\* C14 as stated: normalization is idempotent: normalizing an already
\* normalized estimate again, with the same description and caller rate,
\* changes no field (laborRate, laborHours, shopSuppliesPercent, the name
\* and cost of every part, tips).
C14_NormalizeIdempotent ==
  (req.variant = "v3" /\ Normalized) =>
    /\ ~PartsMapThrows(AsRaw(est).parts)
    /\ NormalizeV3(req, AsRaw(est)) = est

\* an {ok:true} response was sent after text generation, normalization,
\* pricing and the write of the job, and carries their results
C15_OkCarriesAll ==
  resp.ok =>
    /\ raw # NoRaw
    /\ Normalized
    /\ Priced
    /\ savedJob # NoJob /\ savedJob \in jobs
    /\ customerRecord # NoCustomer /\ customerRecord \in customers
    /\ resp.estimate = est /\ resp.totals = totals
    /\ resp.savedJob = savedJob
    /\ resp.customer = customerRecord

\* the stages are entered in order
C15_InOrder ==
  /\ (raw' # raw) => (pc = "fetched" /\ est = NoEst)
  /\ (est' # est) => (raw # NoRaw /\ totals = NoTotals /\ est = NoEst)
  /\ (totals' # totals) => (Normalized /\ savedJob = NoJob)
  /\ (savedJob' # savedJob) => (Priced /\ ~resp.ok)
  /\ (resp'.ok /\ ~resp.ok) => (savedJob # NoJob /\ savedJob \in jobs)

\* C15 as stated: POST /api/generate-estimate answers {ok:true} only after
\* text generation, normalization, pricing and a successful write of the
\* job record, in that order, and every {ok:true} response carries the
\* priced estimate, the saved job record and the customer record.
C15_OkOnlyAfterPersist == []C15_OkCarriesAll /\ [][C15_InOrder]_vars

\* the rows the customers table may hold when the request arrives
ArrivalRows == UNION InitialCustomers

\* the request ended after pricing with an error: the store rejected the
\* insert of the customer or of the job
WriteRejected ==
  /\ req.variant \in {"first", "v3"}
  /\ pc = "responded"
  /\ Priced
  /\ ~resp.ok

\* C16 as stated: when the store rejects the job write the request ends
\* with HTTP 500 and the store holds no record written by the request: no
\* customer row created by the request remains without its job.
C16_NoPartialWrite ==
  WriteRejected =>
    /\ resp.status = 500
    /\ jobs = {}
    /\ \A c \in customers :
         \/ c \in ArrivalRows
         \/ \E j \in jobs : j.customer_id = c.id

\* the body fails schema validation: description shorter than 3 characters,
\* customer name missing, laborRate of the wrong type where the schema has
\* a laborRate
FailsValidation ==
  \/ Len(req.description) < 3
  \/ req.customer.name = ""
  \/ req.variant = "v3" /\ req.laborRate.k = "str"

\* C17 as stated: a request whose body fails schema validation is answered
\* with HTTP 400, and neither the text-generation service nor the store is
\* called for it.
C17_InvalidBodyAnswered400 ==
  FailsValidation =>
    /\ pc = "responded" => resp.status = 400
    /\ ~resp.ok
    /\ raw = NoRaw
    /\ customerRecord = NoCustomer
    /\ savedJob = NoJob
    /\ jobs = {}
    /\ customers \in InitialCustomers

\* C18 as stated: every external call of generate-estimate is bounded by a
\* timeout, so every request eventually receives a response, even when the
\* fetch, the reading of the body, a customer lookup or insert, or the job
\* insert never returns.
C18_EveryRequestAnswered == <>(pc = "responded")

\* a response fetchWithRetry is to return at once: 2xx, 4xx other than 429
FinalOutcome(o) ==
  /\ o.k = "response"
  /\ \/ o.status \in 200..299
     \/ o.status \in 400..499 /\ o.status # 429

\* an outcome after which fetchWithRetry is to try again: 5xx, 429, a
\* thrown network error
RetryableOutcome(o) ==
  \/ o.k = "error"
  \/ o.k = "response" /\ (o.status = 429 \/ o.status \in 500..599)

\* the outcome of the last fetch made
LastOutcome == fwrLog[Len(fwrLog)]

C19_AttemptsSoFar ==
  \* another fetch was made only after a retryable outcome
  /\ \A n \in 1..(Len(fwrLog) - 1) : RetryableOutcome(fwrLog[n])
  /\ Len(fwrLog) <= fwrRetries
  /\ fwrLog # <<>> =>
       \* a 2xx or a 4xx other than 429 is returned at once
       /\ FinalOutcome(LastOutcome) =>
            (fwrPc = "returned" /\ fwrResult = LastOutcome)
       \* while attempts remain, a retryable outcome ends nothing
       /\ (RetryableOutcome(LastOutcome) /\ Len(fwrLog) < fwrRetries) =>
            fwrPc \in {"waiting", "fetching"}
       \* the last attempt ends the call whatever its outcome
       /\ (RetryableOutcome(LastOutcome) /\ Len(fwrLog) = fwrRetries) =>
            IF LastOutcome.k = "error" THEN fwrPc = "thrown"
            ELSE fwrPc = "returned" /\ fwrResult = LastOutcome

C19_WaitThenFetch == fwrPc = "waiting" => fwrPc' = "fetching"

\* C19: fetchWithRetry makes no further attempt after a response whose
\* status is 2xx or a 4xx other than 429: it returns that response at once;
\* after a 5xx response, a 429 response or a thrown network error it makes
\* another attempt while attempts remain.
C19_RetryPolicy == []C19_AttemptsSoFar /\ [][C19_WaitThenFetch]_vars

\* C19 witness: with three attempts allowed, a 503 was followed by a second
\* fetch, and its 404 was returned although an attempt remained
C19_Witness ==
  /\ fwrRetries = 3
  /\ fwrLog = <<Response(503), Response(404)>>
  /\ fwrPc = "returned"
  /\ fwrResult = Response(404)

\* the first balanced {...} block of a text: from its first '{' to the '}'
\* that closes it
FirstBalancedBlock(s) ==
  LET first == Least({i \in 1..Len(s) : s[i] = "{"})
      Depth(j) == Cardinality({i \in first..j : s[i] = "{"})
                  - Cardinality({i \in first..j : s[i] = "}"})
      last == Least({j \in first..Len(s) : Depth(j) = 0})
  IN  SubSeq(s, first, last)

\* C20 as stated: the handler extracts the first balanced {...} block of
\* the reply and parses it: for a reply in which a valid JSON object is
\* wrapped in markdown fences or surrounded by prose, prose or a second
\* object with braces after it included, the parsed estimate is that first
\* object and the request does not fail as non-JSON.
C20_FirstBalancedBlockParsed ==
  exPc = "done" =>
    /\ exResult.ok
    /\ exResult.value =
         SelectSeq(FirstBalancedBlock(exText), LAMBDA c : c \notin JsonWhiteSpace)


(***************************************************************************)
(* Claims on the customer step and on the life of a request.               *)
(***************************************************************************)
\* rows of the customers table with the email of the request
SameEmail == {c \in customers : req.customer.email # "" /\ c.email = req.customer.email}

\* rows of the customers table with the phone of the request
SamePhone == {c \in customers : req.customer.phone # "" /\ c.phone = req.customer.phone}

\* the customer step has ended and the request goes on to the job insert
CustomerStepDone == pc = "phoneChecked" /\ pc' = "customerSaved"

\* C21 as stated: requests handled one after another; the customer step is
\* lookup-or-insert: a customer with the email of the request is reused,
\* else a customer with its phone is reused, and a row is inserted only
\* when neither exists: no row is inserted while a matching customer exists.
C21_LookupOrInsert ==
  [][ /\ (customers' # customers) => (SameEmail = {} /\ SamePhone = {})
      /\ (CustomerStepDone /\ SameEmail # {}) => customerRecord' \in SameEmail
      /\ (CustomerStepDone /\ SameEmail = {} /\ SamePhone # {}) =>
            customerRecord' \in SamePhone
    ]_vars

\* the four ways a request ends
Success == resp.ok /\ resp.status = 200

ValidationError == ~resp.ok /\ ~SchemaAccepts(req) /\ raw = NoRaw /\ totals = NoTotals

\* the service failed, or its reply could not be read, parsed or priced
TextGenerationFailed == ~resp.ok /\ SchemaAccepts(req) /\ totals = NoTotals

PersistenceFailed == ~resp.ok /\ SchemaAccepts(req) /\ Priced /\ savedJob = NoJob

Endings == <<Success, ValidationError, TextGenerationFailed, PersistenceFailed>>

\* a response has been sent
Responded == resp # NoResp

\* the request is over when its response is sent, and it ended in exactly
\* one of the four ways
C22_OneEnding ==
  /\ Responded <=> pc = "responded"
  /\ Responded => Cardinality({i \in 1..4 : Endings[i]}) = 1
  /\ Responded => resp.status \in {200, 400, 500, 504}

\* once the response is sent the handler takes no step: no second
\* response, no fetch, no read of a reply, no select, no insert
C22_NothingAfterResponse == Responded => UNCHANGED handlerVars

BeforeReply == {"received", "validated", "fetched", "responded"}

\* until a reply of the service is parsed the store is neither read nor
\* written: the handler is not at a select or an insert, holds no customer
\* row, and the tables are as the request found them
C24_StoreUntouchedBeforeReply ==
  raw = NoRaw =>
    /\ pc \in BeforeReply
    /\ customerRecord = NoCustomer
    /\ savedJob = NoJob
    /\ jobs = {}
    /\ customers \in InitialCustomers

\* the text-generation step of a valid request has failed
TextGenerationStepFailed ==
  pc = "responded" /\ SchemaAccepts(req) /\ raw = NoRaw

\* C24 as stated: when the text-generation step fails (status not 2xx,
\* thrown network error, timeout, empty content, unparsable JSON) the
\* request answers with an error and has made no read or write on the
\* store: no customer row and no job row exists because of it.
C24_FailureLeavesStoreAlone ==
  /\ C24_StoreUntouchedBeforeReply
  /\ TextGenerationStepFailed => (~resp.ok /\ resp.status \in {500, 504})

\* a timeout answered 504 while the customers table holds a row
C24_Witness ==
  /\ TextGenerationStepFailed
  /\ resp.status = 504
  /\ customers = {CustomerRow(1, Customer("Pat", "pat@x", "555"))}
  /\ customerRecord = NoCustomer

(***************************************************************************)
(* Claims on the bounds of fetchWithRetry.                                 *)
(***************************************************************************)
\* the call has ended
Terminated == fwrPc \in {"returned", "thrown"}

\* at most retries fetches; the k-th wait is backoff * 2^(k-1) and a wait
\* follows every attempt but the last; the call ends with the response or
\* the error of the last attempt
C23_BoundedAttempts ==
  fwrRetries >= 1 =>
    /\ Len(fwrLog) <= fwrRetries
    /\ Len(fwrWaits) <= fwrRetries - 1
    /\ \A k \in 1..Len(fwrWaits) : fwrWaits[k] = fwrBackoffArg * 2^(k - 1)
    /\ fwrPc = "fetching" => Len(fwrWaits) = Len(fwrLog)
    /\ fwrPc = "waiting" => Len(fwrWaits) = Len(fwrLog) - 1
    /\ Terminated =>
         /\ fwrLog # <<>>
         /\ Len(fwrWaits) = Len(fwrLog) - 1
         /\ IF Thrown(LastOutcome) THEN fwrPc = "thrown"
            ELSE fwrPc = "returned" /\ fwrResult = LastOutcome

\* C23 as stated: a call of fetchWithRetry with retries >= 1 makes at most
\* retries calls to fetch and always terminates: it returns the response of
\* the last attempt (even a 5xx or 429) or rethrows the error of the last
\* attempt; the wait before attempt k+1 is backoff * 2^(k-1), and there is
\* no wait after the last attempt.
C23_BoundedRetry == []C23_BoundedAttempts /\ <>Terminated

\* three attempts with backoff 2000: 503, wait 2000, a thrown error, wait
\* 4000, 429, which is returned with no further wait
C23_Witness ==
  /\ fwrRetries = 3
  /\ fwrBackoffArg = 2000
  /\ fwrLog = <<Response(503), NetworkError, Response(429)>>
  /\ fwrWaits = <<2000, 4000>>
  /\ fwrPc = "returned"
  /\ fwrResult = Response(429)

(***************************************************************************)
(* Claims on requests handled at the same time.                            *)
(***************************************************************************)
\* two rows of the customers table hold the same email or the same phone
SameKey(c, d) ==
  \/ c.email # "" /\ c.email = d.email
  \/ c.phone # "" /\ c.phone = d.phone

\* C25 as stated: for any interleaving of concurrent requests that carry
\* the same email or the same phone of a customer not yet in the store, the
\* store ends with at most one customer record for that email or phone.
C25_OneRowPerKey ==
  \A c \in customers : \A d \in customers : SameKey(c, d) => c = d

\* the requests answered valid: true
AnsweredValid == {p \in Requesters : acPc[p] = "valid"}

\* the row of the stored code
StoredRow == CHOOSE r \in accessCodes : r.id = 1

\* every request to validate-access has been answered
AllValidated == \A p \in Requesters : acPc[p] \in {"valid", "invalid"}

\* C26 as stated: for an access code stored with max_uses = N > 0, under
\* any interleaving of concurrent POST /api/validate-access requests at
\* most N are answered valid: true, and after they all complete
\* current_uses equals the number of valid: true answers.
C26_UsesCounted ==
  /\ Cardinality(AnsweredValid) <= StoredRow.max_uses
  /\ AllValidated => StoredRow.current_uses = Cardinality(AnsweredValid)

\* delivery p is acknowledged in this step
Acknowledged(p) == whPc[p] = "verified" /\ whPc'[p] = "acknowledged"

\* C27 as stated: when a correctly signed checkout.session.completed event
\* is delivered to POST /api/stripe-webhook, handleCheckoutCompleted runs
\* and an active 'pro' access code record of that customer is inserted
\* before the {received: true} acknowledgement; a
\* customer.subscription.deleted event sets is_active to false on the
\* matching access code; the handler making these updates serves the route.
C27_WebhookUpdatesStore ==
  [][\A p \in Requesters :
       /\ (Acknowledged(p) /\ whEvent[p].type = "checkout.session.completed") =>
            \E r \in accessCodes' \ accessCodes :
               /\ r.tier = "pro" /\ r.is_active
               /\ r.stripe_customer_id = whEvent[p].customer
       /\ (Acknowledged(p) /\ whEvent[p].type = "customer.subscription.deleted") =>
            \A r \in accessCodes' :
               r.stripe_subscription_id = whEvent[p].subscription => ~r.is_active
    ]_vars

\* no request to create-invoice is between its insert and its update
NoInvoiceInProgress == \A p \in Requesters : ivPc[p] # "inserted"

\* C30 as stated: for any sequence or interleaving of POST
\* /api/create-invoice requests an estimate has at most one invoice, and
\* whenever an invoice exists for an estimate the status of that estimate
\* is 'invoiced': a second request for an invoiced estimate creates no
\* further invoice, and a failed status update leaves no invoice whose
\* estimate is not marked invoiced.
C30_OneInvoicePerEstimate ==
  /\ \A i \in invoices : \A j \in invoices : i.estimate_id = j.estimate_id => i = j
  /\ NoInvoiceInProgress =>
       \A i \in invoices :
          \E e \in estimates : e.id = i.estimate_id /\ e.status = "invoiced"

(***************************************************************************)
(* Claims on the timeout of the retried fetch and on the flat-rate keys.   *)
(***************************************************************************)
\* C28 as stated: once the request's timeout has fired and aborted the
\* in-flight text-generation fetch, fetchWithRetry starts no further
\* attempt and waits no further backoff: the AbortError propagates out of
\* it at once (and the handler answers 504).
C28_AbortEndsCall ==
  \A n \in 1..Len(fwrLog) :
     fwrLog[n] = AbortError =>
       /\ n = Len(fwrLog)
       /\ Len(fwrWaits) = n - 1
       /\ fwrPc = "thrown"

\* C29 as stated: every key of FLAT_RATES is reachable: getFlatRate(k)
\* returns the entry whose key is k, so 'oil change + rotation', 'water
\* pump replacement', 'radiator hose' and 'tie rod end' yield their own
\* entries, not those of a shorter key declared earlier.
C29_EveryKeyReachable ==
  (frPc = "done" /\ frInput \in Keys(TableOf(frTable))) => frResult.job = frInput
=============================================================================
